---- MODULE Spec2Model ----
(***************************************************************************)
(* Model of the analysis pipeline of tool-spec-converter                   *)
(* (src/src/lib/analysis-engine.ts) as driven by the page handlers of      *)
(* src/src/routes/+page.svelte.                                            *)
(*                                                                         *)
(* JavaScript runs one synchronous segment at a time.  `turn` names the    *)
(* startAnalysis invocation whose segment is executing (0: the event loop  *)
(* is idle, so a UI event or a provider response may be dispatched).       *)
(* Every analysisStore.set/update is one step of the model, because the    *)
(* store notifies its subscribers synchronously on each of them.           *)
(***************************************************************************)
EXTENDS Naturals, Sequences, FiniteSets, TLC

VARIABLES store, runs, turn, call

\* store, runs, turn: the pipeline; call: a library function under
\* evaluation outside the pipeline (its arguments and, once it returned, its
\* result), [fn |-> "none"] in every behaviour of the pipeline
vars == <<store, runs, turn, call>>

\* ------------------------------------------------------------------ bounds
\* number of startAnalysis invocations in a behaviour (run r is the r-th call)
MaxRuns == 2

\* ------------------------------------------------------------- JS values
None == <<>>
Some(x) == <<x>>
Undefined == "undefined"
\* a truthiness test that takes only undefined for falsy
DefinedOnly(s) == s # Undefined
Truthy(s) == s \notin {Undefined, ""}

\* ---------------------------------------------------- check declarations
checks ==
  << [id |-> "repo-exists",         isRequired |-> TRUE],
     [id |-> "tool-yaml-exists",    isRequired |-> TRUE],
     [id |-> "tool-yaml-valid",     isRequired |-> TRUE],
     [id |-> "citation-cff-exists", isRequired |-> FALSE],
     [id |-> "license-check",       isRequired |-> FALSE],
     [id |-> "metadata-conversion", isRequired |-> TRUE] >>

NumChecks == Len(checks)

\* a CheckResult (name, description and duration carry no behaviour)
CheckResult(id, status, data, error, warning, isRequired) ==
  [id |-> id, status |-> status, data |-> data, error |-> error,
   warning |-> warning, isRequired |-> isRequired]

\* ------------------------------------------------------- Map<string, _>
MapHas(m, k) == \E i \in 1..Len(m) : m[i].id = k

MapGet(m, k) == m[CHOOSE i \in 1..Len(m) : m[i].id = k]

\* Map.set keeps the position of an existing key and appends a new one
MapSet(m, k, v) ==
  IF MapHas(m, k)
  THEN [m EXCEPT ![CHOOSE i \in 1..Len(m) : m[i].id = k] = v]
  ELSE Append(m, v)

\* ---------------------------------------------------------------- store
\* the value passed to writable() and to resetAnalysis
IdleState ==
  [state |-> "idle", repoUrl |-> "", repoInfo |-> None, checks |-> <<>>,
   currentCheck |-> None, progress |-> 0, toolYaml |-> None,
   citationCff |-> None, metadata |-> None, warnings |-> <<>>,
   errors |-> <<>>, canCancel |-> FALSE, canRetry |-> FALSE]

\* a start that resets the state fields but keeps what the lists collected
AnalyzingStateKeepingTexts(repoUrl) ==
  [IdleState EXCEPT !.state = "analyzing", !.repoUrl = repoUrl,
                    !.canCancel = TRUE, !.warnings = store.warnings,
                    !.errors = store.errors]

\* a start that resets the state but keeps the metadata of the earlier run
AnalyzingStateKeepingMetadata(repoUrl) ==
  [IdleState EXCEPT !.state = "analyzing", !.repoUrl = repoUrl,
                    !.canCancel = TRUE, !.metadata = store.metadata]

\* the value startAnalysis sets first
AnalyzingState(repoUrl) ==
  [IdleState EXCEPT !.state = "analyzing", !.repoUrl = repoUrl,
                    !.canCancel = TRUE]

\* the pending entries startAnalysis seeds
initialChecks ==
  [i \in 1..NumChecks |->
     CheckResult(checks[i].id, "pending", None, Undefined, Undefined,
                 checks[i].isRequired)]

\* apply { ...s, ...patch }
Apply(s, patch) ==
  [f \in DOMAIN s |-> IF f \in DOMAIN patch THEN patch[f] ELSE s[f]]

\* ------------------------------------------------------ provider inputs
\* repository identifiers a user may search for
Urls == {"owner/repo"}

\* the descriptor validateRepoExists builds from the provider's answer
RepoInfoOf(url) ==
  [owner |-> "owner", name |-> "repo", fullName |-> url,
   description |-> "A tool", language |-> "Python"]

\* validateRepoExists: a descriptor, or a thrown GitHubApiError
RepoResponses(url) ==
  { [ok |-> TRUE,  value |-> Some(RepoInfoOf(url)), message |-> Undefined],
    [ok |-> FALSE, value |-> None,
     message |-> "Repository owner/repo not found or not public"],
    [ok |-> FALSE, value |-> None, message |-> "Network error: Failed to fetch"] }

\* results of validateToolSpec(yamlContent)
ToolSpecResults ==
  { [isValid |-> TRUE,
     toolSpec |-> Some([title |-> "MyTool", description |-> "Does X.",
                        parameters |-> Some(<<[name |-> "threshold", type |-> "float"]>>)]),
     errors |-> <<>>, warnings |-> <<>>],
    [isValid |-> TRUE,
     toolSpec |-> Some([title |-> "MyTool", description |-> "Does X.",
                        parameters |-> None]),
     errors |-> <<>>, warnings |-> <<"Field version is deprecated">>],
    [isValid |-> FALSE, toolSpec |-> None,
     errors |-> <<"No tools section found">>, warnings |-> <<>>],
    [isValid |-> FALSE,
     toolSpec |-> Some([title |-> "MyTool", description |-> "",
                        parameters |-> None]),
     errors |-> <<"Missing required field: description">>, warnings |-> <<>>] }

\* results of parseCitationCff(cffContent)
CffResults ==
  { [isValid |-> TRUE,
     citationCff |-> Some([title |-> "MyTool", version |-> Undefined,
                           license |-> "MIT", keywords |-> <<"hydrology">>]),
     errors |-> <<>>,
     warnings |-> <<"Field \"issued\" (date) is missing (recommended for proper citation)">>],
    [isValid |-> FALSE, citationCff |-> None,
     errors |-> <<"Missing required field: \"author\" (must be a non-empty array)">>,
     warnings |-> <<>>] }

\* results of compareLicenses(citationCff.license, licenseFileContent)
LicenseComparisons ==
  { [areCompatible |-> TRUE, warnings |-> <<>>],
    [areCompatible |-> FALSE,
     warnings |-> <<"License mismatch: CITATION.cff specifies MIT but LICENSE file appears to be gpl">>] }

NoComparison == [areCompatible |-> TRUE, warnings |-> <<>>]

\* getFileContent: the decoded text handed to the parser (here already the
\* parser's or comparer's answer for it), or a thrown GitHubApiError
FileResponses(parsed) ==
  { [ok |-> TRUE, length |-> 1, parsed |-> Some(p), message |-> Undefined] : p \in parsed }
  \cup { [ok |-> FALSE, length |-> 0, parsed |-> None,
          message |-> "Network error: Failed to fetch"] }

\* what becomes of the request checkFileExists sends: a response with
\* response.ok, a response without it (404), or fetch rejecting
FetchOutcomes == {"ok", "not found", "network error"}

\* checkFileExists: return response.ok; catch { return false }
checkFileExists(fetched) == fetched = "ok"

\* no getFileContent call was made
NoResponse == [ok |-> FALSE, length |-> 0, parsed |-> None, message |-> Undefined]

\* Array.prototype.join('; ')
RECURSIVE Join(_)
Join(xs) ==
  IF Len(xs) = 0 THEN ""
  ELSE IF Len(xs) = 1 THEN xs[1]
  ELSE xs[1] \o "; " \o Join(Tail(xs))

\* xs.length > 0 ? xs.join('; ') : undefined
JoinOrUndefined(xs) == IF Len(xs) > 0 THEN Join(xs) ELSE Undefined

\* ------------------------------------------------- unified metadata
\* a lower-casing that leaves the text as it is
ToLowerCaseKeepingCase(str) == str

\* String.prototype.toLowerCase on the languages the provider reports
ToLowerCase(str) ==
  CASE str = "Python" -> "python"
    [] str = "R" -> "r"
    [] OTHER -> str

\* array.filter((k, i, a) => a.indexOf(k) === i)
RECURSIVE RemoveDuplicates(_)
RemoveDuplicates(xs) ==
  IF Len(xs) = 0 THEN <<>>
  ELSE LET front == RemoveDuplicates(SubSeq(xs, 1, Len(xs) - 1))
           last == xs[Len(xs)]
       IN IF \E i \in 1..Len(front) : front[i] = last
          THEN front ELSE Append(front, last)

\* createUnifiedMetadata(repoInfo, toolSpec, citationCff, licenseInfo,
\* dockerfileCmd?, repositoryVersion?)
createUnifiedMetadata(repoInfo, toolSpec, citationCff, licenseInfo, dockerfileCmd, repositoryVersion) ==
  LET hasCff == citationCff # None
      cff == citationCff[1]
      hasLicenseInfo == licenseInfo # None
      keywords ==
        RemoveDuplicates(
          (IF toolSpec.parameters # None THEN <<"tool-spec">> ELSE <<>>)
          \o (IF hasCff THEN cff.keywords ELSE <<>>)
          \o (IF Truthy(repoInfo.language)
              THEN <<ToLowerCase(repoInfo.language)>> ELSE <<>>))
      version ==
        IF Truthy(repositoryVersion) THEN repositoryVersion
        ELSE IF hasCff /\ Truthy(cff.version) THEN cff.version ELSE "latest"
  IN [name |-> IF Truthy(toolSpec.title) THEN toolSpec.title ELSE repoInfo.name,
      description |->
        IF Truthy(toolSpec.description) THEN toolSpec.description
        ELSE IF Truthy(repoInfo.description) THEN repoInfo.description ELSE "",
      version |-> version,
      repository |-> repoInfo,
      license |->
        [license |-> IF hasCff /\ Truthy(cff.license) THEN cff.license ELSE "null",
         licenseFileExists |->
           IF hasLicenseInfo THEN licenseInfo[1].licenseExists ELSE FALSE,
         licenseCompatibility |->
           IF hasLicenseInfo THEN licenseInfo[1].licenseComparison
           ELSE NoComparison],
      programmingLanguage |->
        IF Truthy(repoInfo.language) THEN repoInfo.language ELSE "Unknown",
      keywords |-> keywords,
      toolSpec |-> toolSpec,
      galaxyConfig |->
        [command |-> dockerfileCmd,
         container |-> "ghcr.io/" \o repoInfo.owner \o "/" \o repoInfo.name \o ":latest",
         containerVersion |-> repositoryVersion, outputs |-> <<>>, profile |-> "24.0"]]

\* ------------------------------------------------------------ executors
\* An executor run is summarised by the store updates it makes itself
\* (patches, in order) and the CheckResult it returns.
Outcome(patches, result) == [patches |-> patches, result |-> result]

\* a failure result that always reports the check as optional
FailedNotRequired(i, message) ==
  Outcome(<<>>, CheckResult(checks[i].id, "failed", None, message, Undefined, FALSE))

Failed(i, message) ==
  Outcome(<<>>, CheckResult(checks[i].id, "failed", None, message, Undefined,
                            checks[i].isRequired))

\* repo-exists spreading its snapshot ({...state, ...}) instead of the current
\* store value ({...s, ...}) in its update
RepoExistsExecutorSpreadingSnapshot(state, resp) ==
  IF resp.ok
  THEN Outcome(<<[state EXCEPT !.repoInfo = resp.value, !.progress = 20]>>,
               CheckResult("repo-exists", "completed", resp.value, Undefined,
                           Undefined, TRUE))
  ELSE Failed(1, resp.message)

\* checks[0].executor
RepoExistsExecutor(state, resp) ==
  IF resp.ok
  THEN Outcome(<<[repoInfo |-> resp.value, progress |-> 20]>>,
               CheckResult("repo-exists", "completed", resp.value, Undefined,
                           Undefined, TRUE))
  ELSE Failed(1, resp.message)

\* checks[1].executor
ToolYamlExistsExecutor(state, exists) ==
  IF state.repoInfo = None THEN Failed(2, "Repository info not available")
  ELSE Outcome(<<[progress |-> 40]>>,
               CheckResult("tool-yaml-exists",
                           IF exists THEN "completed" ELSE "failed", None,
                           IF exists THEN Undefined
                           ELSE "tool.yml file not found in src directory",
                           Undefined, TRUE))

\* checks[2].executor
ToolYamlValidExecutor(state, resp) ==
  IF state.repoInfo = None THEN Failed(3, "Repository info not available")
  ELSE IF ~resp.ok THEN Failed(3, resp.message)
  ELSE LET validationResult == resp.parsed[1]
       IN Outcome(<<[toolYaml |-> validationResult.toolSpec, progress |-> 60]>>,
                  CheckResult("tool-yaml-valid",
                              IF validationResult.isValid THEN "completed" ELSE "failed",
                              validationResult.toolSpec,
                              IF validationResult.isValid THEN Undefined
                              ELSE Join(validationResult.errors),
                              JoinOrUndefined(validationResult.warnings), TRUE))

\* checks[3].executor
CitationCffExecutor(state, exists, resp) ==
  IF state.repoInfo = None THEN Failed(4, "Repository info not available")
  ELSE IF ~exists
  THEN Outcome(<<[progress |-> 80]>>,
               CheckResult("citation-cff-exists", "failed", None, Undefined,
                           "CITATION.cff file is missing (optional but recommended)",
                           FALSE))
  ELSE IF ~resp.ok THEN Failed(4, resp.message)
  ELSE LET validationResult == resp.parsed[1]
       IN IF validationResult.isValid
          THEN Outcome(<<[citationCff |-> validationResult.citationCff,
                          progress |-> 80]>>,
                       CheckResult("citation-cff-exists", "completed",
                                   validationResult.citationCff, Undefined,
                                   JoinOrUndefined(validationResult.warnings), FALSE))
          ELSE Outcome(<<>>,
                       CheckResult("citation-cff-exists", "failed", None,
                                   Join(validationResult.errors),
                                   JoinOrUndefined(validationResult.warnings), FALSE))

\* checks[4].executor
LicenseCheckExecutor(state, licenseExists, resp) ==
  IF state.repoInfo = None THEN Failed(5, "Repository info not available")
  ELSE IF licenseExists /\ ~resp.ok THEN Failed(5, resp.message)
  ELSE LET licenseFileLength == IF licenseExists THEN resp.length ELSE 0
           licenseComparison ==
             IF state.citationCff # None /\ licenseFileLength > 0
             THEN resp.parsed[1] ELSE NoComparison
           allWarnings ==
             (IF ~licenseExists
              THEN <<"LICENSE file is missing (recommended for legal clarity)">>
              ELSE <<>>) \o licenseComparison.warnings
       IN Outcome(<<[progress |-> 90]>>,
                  CheckResult("license-check", "completed",
                              Some([licenseExists |-> licenseExists,
                                    licenseFileLength |-> licenseFileLength,
                                    licenseComparison |-> licenseComparison]),
                              Undefined, JoinOrUndefined(allWarnings), FALSE))

\* checks[5].executor
MetadataConversionExecutor(state) ==
  IF state.repoInfo = None
  THEN Failed(6, "Repository information is required for metadata conversion")
  ELSE IF state.toolYaml = None
  THEN Failed(6, "Tool specification is required for metadata conversion")
  ELSE LET licenseInfo ==
             IF MapHas(state.checks, "license-check")
             THEN MapGet(state.checks, "license-check").data ELSE None
           unifiedMetadata ==
             createUnifiedMetadata(state.repoInfo[1], state.toolYaml[1],
                                   state.citationCff, licenseInfo,
                                   Undefined, Undefined)
       IN Outcome(<<[metadata |-> Some(unifiedMetadata), progress |-> 100,
                     state |-> "completed"]>>,
                  CheckResult("metadata-conversion", "completed",
                              Some([unifiedMetadata |-> unifiedMetadata,
                                    exportFormats |-> <<"codemeta">>]),
                              Undefined, Undefined, TRUE))

\* --------------------------------------------------- startAnalysis runs
Runs == 1..MaxRuns

\* a slot no invocation occupies
FreshRun ==
  [pc |-> "idle", idx |-> 0, snap |-> IdleState, exists |-> FALSE,
   outcome |-> Outcome(<<>>, initialChecks[1])]

NoRunInFlight == \A r \in Runs : runs[r].pc \in {"idle", "done"}

\* +page.svelte: isSearching as the store subscription computes it
isSearching == store.state \in {"analyzing", "completed", "error"}

Init ==
  /\ store = IdleState
  /\ runs = [r \in Runs |-> FreshRun]
  /\ turn = 0
  /\ call = [fn |-> "none"]

\* startAnalysis(repoUrl), first statement: analysisStore.set({...})
StartAnalysis(r, repoUrl) ==
  /\ turn = 0
  \* run r is the next invocation
  /\ runs[r].pc = "idle"
  /\ \A q \in Runs : q < r => runs[q].pc # "idle"
  /\ store' = AnalyzingState(repoUrl)
  /\ runs' = [runs EXCEPT ![r] = [FreshRun EXCEPT !.pc = "seed"]]
  /\ turn' = r
  /\ UNCHANGED call

\* startAnalysis: analysisStore.update(s => ({...s, checks: initialChecks}))
SeedChecks(r) ==
  /\ turn = r
  /\ runs[r].pc = "seed"
  /\ store' = Apply(store, [checks |-> initialChecks])
  /\ runs' = [runs EXCEPT ![r].pc = "setCurrent", ![r].idx = 1]
  /\ UNCHANGED turn
  /\ UNCHANGED call

\* loop body: analysisStore.update(s => ({...s, currentCheck: check.id}))
SetCurrentCheck(r) ==
  /\ turn = r
  /\ runs[r].pc = "setCurrent"
  /\ store' = Apply(store, [currentCheck |-> Some(checks[runs[r].idx].id)])
  /\ runs' = [runs EXCEPT ![r].pc = "markRunning"]
  /\ UNCHANGED turn
  /\ UNCHANGED call

\* after an executor has produced its outcome: its own store updates come
\* first, then the orchestrator merges the result
Resume(r, o) ==
  /\ runs' = [runs EXCEPT ![r].outcome = o,
                          ![r].pc = IF o.patches # <<>> THEN "execUpdate" ELSE "merge"]
  /\ turn' = r

\* loop body: mark running, take the snapshot, call check.executor(snapshot)
MarkRunning(r) ==
  /\ turn = r
  /\ runs[r].pc = "markRunning"
  /\ LET i == runs[r].idx
         id == checks[i].id
     \* the update that marks check.id running, when the map holds it
     IN \E marked \in {IF MapHas(store.checks, id)
                       THEN Apply(store,
                                  [checks |->
                                     MapSet(store.checks, id,
                                            [MapGet(store.checks, id) EXCEPT
                                               !.status = "running"])])
                       ELSE store} :
          /\ store' = marked
          \* the executor has nothing to wait for: it returns in the same segment
          /\ IF i = NumChecks \/ (i > 1 /\ marked.repoInfo = None)
             THEN \E o \in {IF i = NumChecks THEN MetadataConversionExecutor(marked)
                            ELSE Failed(i, "Repository info not available")} :
                    /\ runs' = [runs EXCEPT
                                  ![r].snap = marked, ![r].outcome = o,
                                  ![r].pc = IF o.patches # <<>>
                                            THEN "execUpdate" ELSE "merge"]
                    /\ turn' = r
             ELSE /\ runs' = [runs EXCEPT ![r].snap = marked, ![r].pc = "await1"]
                  /\ turn' = 0
  /\ UNCHANGED call

\* the first provider call of the executor settles (checkFileExists answers
\* true: the executor goes on to getFileContent; false: it returns)
ProviderResponse1(r) ==
  /\ turn = 0
  /\ runs[r].pc = "await1"
  /\ UNCHANGED store
  /\ LET i == runs[r].idx
         state == runs[r].snap
     IN \/ /\ i = 1
           /\ \E resp \in RepoResponses(state.repoUrl) :
                Resume(r, RepoExistsExecutor(state, resp))
        \/ /\ i = 2
           /\ \E fetched \in FetchOutcomes :
                Resume(r, ToolYamlExistsExecutor(state, checkFileExists(fetched)))
        \/ /\ i = 3
           /\ \E resp \in FileResponses(ToolSpecResults) :
                Resume(r, ToolYamlValidExecutor(state, resp))
        \/ /\ i \in {4, 5}
           /\ \E fetched \in FetchOutcomes : checkFileExists(fetched)
           /\ runs' = [runs EXCEPT ![r].pc = "await2", ![r].exists = TRUE]
           /\ turn' = 0
        \/ /\ i = 4
           /\ \E fetched \in FetchOutcomes : ~checkFileExists(fetched)
           /\ Resume(r, CitationCffExecutor(state, FALSE, NoResponse))
        \/ /\ i = 5
           /\ \E fetched \in FetchOutcomes : ~checkFileExists(fetched)
           /\ Resume(r, LicenseCheckExecutor(state, FALSE, NoResponse))
  /\ UNCHANGED call

\* getFileContent after checkFileExists answered true settles
ProviderResponse2(r) ==
  /\ turn = 0
  /\ runs[r].pc = "await2"
  /\ UNCHANGED store
  /\ LET i == runs[r].idx
         state == runs[r].snap
     IN \/ /\ i = 4
           /\ \E resp \in FileResponses(CffResults) :
                Resume(r, CitationCffExecutor(state, TRUE, resp))
        \/ /\ i = 5
           /\ \E resp \in FileResponses(LicenseComparisons) :
                Resume(r, LicenseCheckExecutor(state, TRUE, resp))
  /\ UNCHANGED call

\* analysisStore.update(...) inside an executor
ExecutorUpdate(r) ==
  /\ turn = r
  /\ runs[r].pc = "execUpdate"
  /\ store' = Apply(store, Head(runs[r].outcome.patches))
  /\ LET rest == Tail(runs[r].outcome.patches)
     IN runs' = [runs EXCEPT ![r].outcome.patches = rest,
                             ![r].pc = IF rest # <<>> THEN "execUpdate" ELSE "merge"]
  /\ UNCHANGED turn
  /\ UNCHANGED call

\* the merge that puts a new text in front of the list
MergedPrepending(s, id, result) ==
  Apply(s, [checks |-> MapSet(s.checks, id, result),
            warnings |-> IF Truthy(result.warning)
                         THEN <<result.warning>> \o s.warnings ELSE s.warnings,
            errors |-> IF Truthy(result.error)
                       THEN <<result.error>> \o s.errors ELSE s.errors])

\* the merge that collects the texts but does not store the result
MergedWithoutResult(s, id, result) ==
  Apply(s, [warnings |-> IF Truthy(result.warning)
                         THEN Append(s.warnings, result.warning) ELSE s.warnings,
            errors |-> IF Truthy(result.error)
                       THEN Append(s.errors, result.error) ELSE s.errors])

\* the update function of "Update with result"
Merged(s, id, result) ==
  Apply(s, [checks |-> MapSet(s.checks, id, result),
            warnings |-> IF Truthy(result.warning)
                         THEN Append(s.warnings, result.warning) ELSE s.warnings,
            errors |-> IF Truthy(result.error)
                       THEN Append(s.errors, result.error) ELSE s.errors])

\* the loop without its break
StopsPipelineNever(result) == FALSE

\* the break taken on any failure, required or not
StopsPipelineOnAnyFailure(result) == result.status = "failed"

\* if (result.status === 'failed' && result.isRequired)
StopsPipeline(result) == result.status = "failed" /\ result.isRequired

\* loop body: merge the result; then break, leave the loop or go on
MergeResult(r) ==
  /\ turn = r
  /\ runs[r].pc = "merge"
  /\ LET i == runs[r].idx
         result == runs[r].outcome.result
     IN /\ store' = Merged(store, checks[i].id, result)
        /\ IF StopsPipeline(result)
           THEN /\ runs' = [runs EXCEPT ![r].pc = "halt", ![r].snap = IdleState]
                /\ turn' = r
           ELSE IF i = NumChecks
           THEN /\ runs' = [runs EXCEPT ![r].pc = "done", ![r].snap = IdleState]
                /\ turn' = 0
           ELSE /\ runs' = [runs EXCEPT ![r].pc = "setCurrent", ![r].idx = i + 1,
                                        ![r].snap = IdleState, ![r].exists = FALSE]
                /\ turn' = r
  /\ UNCHANGED call

\* a break that leaves the state as it is
HaltWithoutStateUpdate(r) ==
  /\ turn = r
  /\ runs[r].pc = "halt"
  /\ UNCHANGED store
  /\ runs' = [runs EXCEPT ![r].pc = "done"]
  /\ turn' = 0
  /\ UNCHANGED call

\* the update before `break`
HaltOnRequiredFailure(r) ==
  /\ turn = r
  /\ runs[r].pc = "halt"
  /\ store' = Apply(store, [state |-> "error", canCancel |-> FALSE, canRetry |-> TRUE])
  /\ runs' = [runs EXCEPT ![r].pc = "done"]
  /\ turn' = 0
  /\ UNCHANGED call

\* ------------------------------------------------------- page handlers
\* the search box is always shown: Enter or the search button
HandleSearch ==
  \E r \in Runs, repoUrl \in Urls : StartAnalysis(r, repoUrl)

\* the Retry button, shown while isSearching and canRetry
HandleRetry ==
  /\ isSearching
  /\ store.canRetry
  /\ \E r \in Runs, repoUrl \in Urls : StartAnalysis(r, repoUrl)

\* a cancel that also forgets which check was current
HandleCancelClearingCurrentCheck ==
  /\ turn = 0
  /\ isSearching
  /\ store.canCancel
  /\ store' = Apply(store, [state |-> "cancelled", canCancel |-> FALSE,
                            canRetry |-> TRUE, currentCheck |-> None])
  /\ UNCHANGED <<runs, turn>>
  /\ UNCHANGED call

\* the Cancel button, shown while isSearching and canCancel
HandleCancel ==
  /\ turn = 0
  /\ isSearching
  /\ store.canCancel
  \* cancelAnalysis()
  /\ store' = Apply(store, [state |-> "cancelled", canCancel |-> FALSE, canRetry |-> TRUE])
  /\ UNCHANGED <<runs, turn>>
  /\ UNCHANGED call

\* the New Search button, shown while isSearching and state is completed
HandleNewSearch ==
  /\ turn = 0
  /\ isSearching
  /\ store.state = "completed"
  /\ store' = IdleState
  /\ UNCHANGED <<runs, turn>>
  /\ UNCHANGED call

PipelineStep ==
  \E r \in Runs :
    \/ SeedChecks(r)
    \/ SetCurrentCheck(r)
    \/ MarkRunning(r)
    \/ ProviderResponse1(r)
    \/ ProviderResponse2(r)
    \/ ExecutorUpdate(r)
    \/ MergeResult(r)
    \/ HaltOnRequiredFailure(r)

Next ==
  \/ HandleSearch
  \/ HandleRetry
  \/ HandleCancel
  \/ HandleNewSearch
  \/ PipelineStep

Spec == Init /\ [][Next]_vars

\* the page used one analysis at a time: a search or a retry only when no
\* earlier invocation is still awaiting an executor
NextSeq ==
  \/ NoRunInFlight /\ HandleSearch
  \/ NoRunInFlight /\ HandleRetry
  \/ HandleCancel
  \/ HandleNewSearch
  \/ PipelineStep

SpecSeq == Init /\ [][NextSeq]_vars

\* Every provider call settles (it returns or throws) and the event loop runs
\* every continuation that is ready: a step of the pipeline that stays
\* possible is eventually taken.  One invocation is in flight at a time, so
\* the steps of the pipeline are the steps of that invocation.
SpecSeqFair == SpecSeq /\ WF_vars(PipelineStep)

\* ======================================== the run of a known repository
\* A repository with language Python, a valid src/tool.yml (title MyTool, one
\* float parameter), no CITATION.cff and no LICENSE, analysed by the last
\* invocation of a behaviour, after any earlier use of the page.
ScenarioRun == MaxRuns

\* a provider response: the scenario's for the scenario run, any for the others
ScenarioResponse(r) ==
  LET \* validateToolSpec's answer for the scenario's tool.yml
      toolSpec ==
        CHOOSE v \in ToolSpecResults :
          /\ v.isValid
          /\ v.toolSpec # None
          /\ v.toolSpec[1].title = "MyTool"
          /\ v.toolSpec[1].parameters = Some(<<[name |-> "threshold", type |-> "float"]>>)
      state == runs[r].snap
      i == runs[r].idx
      \* what the i-th executor returns on the scenario's provider answers
      executed ==
        CASE i = 1 -> RepoExistsExecutor(state, [ok |-> TRUE,
                                                  value |-> Some(RepoInfoOf(state.repoUrl)),
                                                  message |-> Undefined])
          [] i = 2 -> ToolYamlExistsExecutor(state, checkFileExists("ok"))
          [] i = 3 -> ToolYamlValidExecutor(state, [ok |-> TRUE, length |-> 1,
                                                    parsed |-> Some(toolSpec),
                                                    message |-> Undefined])
          [] i = 4 -> CitationCffExecutor(state, checkFileExists("not found"), NoResponse)
          [] i = 5 -> LicenseCheckExecutor(state, checkFileExists("not found"), NoResponse)
  IN /\ ProviderResponse1(r)
     /\ r = ScenarioRun =>
          /\ runs'[r].pc # "await2"
          /\ runs'[r].outcome.result = executed.result

\* once the scenario run has started the user waits and reads the result
ScenarioStarted == runs[ScenarioRun].pc # "idle"

NextScenario ==
  \/ NoRunInFlight /\ HandleSearch
  \/ NoRunInFlight /\ HandleRetry
  \/ ~ScenarioStarted /\ HandleCancel
  \/ ~ScenarioStarted /\ HandleNewSearch
  \/ \E r \in Runs :
       \/ SeedChecks(r)
       \/ SetCurrentCheck(r)
       \/ MarkRunning(r)
       \/ ScenarioResponse(r)
       \/ ProviderResponse2(r)
       \/ ExecutorUpdate(r)
       \/ MergeResult(r)
       \/ HaltOnRequiredFailure(r)

SpecScenario == Init /\ [][NextScenario]_vars

\* ============================================ a check executor called alone
\* check.executor(currentState) for one check, one snapshot and one set of
\* provider answers
\* no analysis was started
PipelineIdle == store = IdleState /\ runs = [r \in Runs |-> FreshRun] /\ turn = 0

NoRepoResponse == [ok |-> FALSE, value |-> None, message |-> Undefined]

ExecutorCall(i, state, repo, fetched, file) ==
  [fn |-> "executor", i |-> i, state |-> state, repo |-> repo,
   fetched |-> fetched, file |-> file, result |-> None]

\* getFileContent for the i-th executor: the file it asks the provider for
\* and what the executor makes of the fetched text
ContentResponses(i) ==
  LET path == CASE i = 3 -> "src/tool.yml"
                [] i = 4 -> "CITATION.cff"
                [] i = 5 -> "LICENSE"
      content == CASE i = 3 -> ToolSpecResults
                   [] i = 4 -> CffResults
                   [] i = 5 -> LicenseComparisons
  IN FileResponses(content)
     \cup { [ok |-> FALSE, length |-> 0, parsed |-> None,
             message |-> "File " \o path \o " not found"] }

\* the calls, with the provider answers each executor asks for, on the
\* snapshots an executor can be handed: after the seeding, with or without
\* the repository descriptor and the parsed citation
InitExecutor ==
  LET Snapshots ==
        UNION { { Apply(AnalyzingState(url),
                        [checks |-> initialChecks, repoInfo |-> ri, citationCff |-> cff]) :
                    ri \in {None, Some(RepoInfoOf(url))},
                    cff \in {r.citationCff : r \in CffResults} } : url \in Urls }
  IN /\ PipelineIdle
     /\ call \in
        UNION { { ExecutorCall(1, state, repo, "ok", NoResponse) :
                 repo \in RepoResponses(state.repoUrl) }
             \cup { ExecutorCall(2, state, NoRepoResponse, fetched, NoResponse) :
                      fetched \in FetchOutcomes }
             \cup { ExecutorCall(3, state, NoRepoResponse, "ok", file) :
                      file \in ContentResponses(3) }
             \cup { ExecutorCall(i, state, NoRepoResponse, fetched, NoResponse) :
                      i \in {4, 5}, fetched \in FetchOutcomes \ {"ok"} }
             \cup UNION { { ExecutorCall(i, state, NoRepoResponse, "ok", file) :
                              file \in ContentResponses(i) } : i \in {4, 5} }
             : state \in Snapshots }

\* the executor's promise resolves with its CheckResult
ExecutorReturns ==
  /\ call.fn = "executor"
  /\ call.result = None
  /\ LET c == call
         \* what the executor of the call returns and writes
         executed ==
           CASE c.i = 1 -> RepoExistsExecutor(c.state, c.repo)
             [] c.i = 2 -> ToolYamlExistsExecutor(c.state, checkFileExists(c.fetched))
             [] c.i = 3 -> ToolYamlValidExecutor(c.state, c.file)
             [] c.i = 4 -> CitationCffExecutor(c.state, checkFileExists(c.fetched), c.file)
             [] c.i = 5 -> LicenseCheckExecutor(c.state, checkFileExists(c.fetched), c.file)
     IN call' = [call EXCEPT !.result = Some(executed.result)]
  /\ UNCHANGED <<store, runs, turn>>

SpecExecutor == InitExecutor /\ [][ExecutorReturns]_vars

\* C12: whenever a provider operation fails inside an executor (resolve
\* repository, test file existence, fetch file content), the executor returns
\* a CheckResult with status failed whose error is the provider's message
\* (a file that is not there is an answer of the existence test, not a failure)
C12_ProviderFailureBecomesFailedResult ==
  LET c == call
      failures ==
        (IF c.i = 1 /\ ~c.repo.ok THEN {c.repo.message} ELSE {})
        \cup (IF c.i \in {2, 4, 5} /\ c.state.repoInfo # None /\ c.fetched = "network error"
              THEN {"Network error: Failed to fetch"} ELSE {})
        \cup (IF c.i \in {3, 4, 5} /\ c.state.repoInfo # None /\ c.fetched = "ok" /\ ~c.file.ok
              THEN {c.file.message} ELSE {})
  IN (call.fn = "executor" /\ call.result # None)
       => \A message \in failures :
            /\ call.result[1].status = "failed"
            /\ call.result[1].error = message

\* ======================================================== text values
\* A text the code looks into (searches, trims, escapes) is the sequence of
\* its characters.
UpperCaseLetters ==
  <<"A", "B", "C", "D", "E", "F", "G", "H", "I", "J", "K", "L", "M",
    "N", "O", "P", "Q", "R", "S", "T", "U", "V", "W", "X", "Y", "Z">>

LowerCaseLetters ==
  <<"a", "b", "c", "d", "e", "f", "g", "h", "i", "j", "k", "l", "m",
    "n", "o", "p", "q", "r", "s", "t", "u", "v", "w", "x", "y", "z">>

\* String.prototype.toLowerCase
LowerCased(text) ==
  LET LowerChar(c) ==
        IF \E k \in DOMAIN UpperCaseLetters : UpperCaseLetters[k] = c
        THEN LowerCaseLetters[CHOOSE k \in DOMAIN UpperCaseLetters : UpperCaseLetters[k] = c]
        ELSE c
  IN [k \in 1..Len(text) |-> LowerChar(text[k])]

\* String.prototype.includes
Includes(text, part) ==
  \E k \in 0..(Len(text) - Len(part)) : SubSeq(text, k + 1, k + Len(part)) = part

\* Array.prototype.join(separator) over texts
RECURSIVE JoinTexts(_, _)
JoinTexts(texts, separator) ==
  IF Len(texts) = 0 THEN <<>>
  ELSE IF Len(texts) = 1 THEN texts[1]
  ELSE texts[1] \o separator \o JoinTexts(Tail(texts), separator)

\* ===================================================== compareLicenses
\* [a-z0-9]
IsLowerAlnum(c) ==
  \/ c \in {"0", "1", "2", "3", "4", "5", "6", "7", "8", "9"}
  \/ \E k \in DOMAIN LowerCaseLetters : LowerCaseLetters[k] = c

\* normalizeLicense: license.toLowerCase().replace(/[^a-z0-9]/g, '')
normalizeLicense(license) == SelectSeq(LowerCased(license), IsLowerAlnum)

commonLicenses ==
  <<<<"m", "i", "t">>,
    <<"a", "p", "a", "c", "h", "e">>,
    <<"g", "p", "l">>,
    <<"b", "s", "d">>,
    <<"m", "o", "z", "i", "l", "l", "a">>,
    <<"e", "c", "l", "i", "p", "s", "e">>,
    <<"u", "n", "l", "i", "c", "e", "n", "s", "e">>,
    <<"c", "c", "0">>>>

\* a detection that takes "mit" when no name is found in the text
DetectedLicenseDefaultingToFirst(licenseFileLower) ==
  IF \E k \in DOMAIN commonLicenses : Includes(licenseFileLower, commonLicenses[k])
  THEN commonLicenses[CHOOSE k \in DOMAIN commonLicenses :
         /\ Includes(licenseFileLower, commonLicenses[k])
         /\ \A j \in 1..(k - 1) : ~Includes(licenseFileLower, commonLicenses[j])]
  ELSE commonLicenses[1]

\* for (const license of commonLicenses) if (licenseFileLower.includes(license))
\* { detectedLicense = license; break; }   -- '' when the loop finds none
DetectedLicense(licenseFileLower) ==
  IF \E k \in DOMAIN commonLicenses : Includes(licenseFileLower, commonLicenses[k])
  THEN commonLicenses[CHOOSE k \in DOMAIN commonLicenses :
         /\ Includes(licenseFileLower, commonLicenses[k])
         /\ \A j \in 1..(k - 1) : ~Includes(licenseFileLower, commonLicenses[j])]
  ELSE <<>>

\* a warning of compareLicenses: its fixed text and what is spliced into it
LicenseWarning(text, args) == [text |-> text, args |-> args]

\* a license value of CITATION.cff is absent (present FALSE), one text, or an
\* array of texts
\* !cffLicense : undefined, or the empty text
Falsy(cffLicense) ==
  ~cffLicense.present \/ (~cffLicense.isArray /\ cffLicense.texts[1] = <<>>)

\* compareLicenses(cffLicense, licenseFileContent); the content is None or
\* Some(text)
compareLicenses(cffLicense, licenseFileContent) ==
  LET noContent == licenseFileContent = None \/ licenseFileContent[1] = <<>>
  IN IF Falsy(cffLicense) /\ noContent
     THEN [areCompatible |-> TRUE,
           warnings |-> <<LicenseWarning(
             "No license information found in either CITATION.cff or LICENSE file", <<>>)>>]
     ELSE IF Falsy(cffLicense)
     THEN [areCompatible |-> TRUE,
           warnings |-> <<LicenseWarning(
             "No license specified in CITATION.cff, but LICENSE file is present", <<>>)>>]
     ELSE IF noContent
     THEN [areCompatible |-> TRUE,
           warnings |-> <<LicenseWarning(
             "License specified in CITATION.cff, but no LICENSE file found in repository", <<>>)>>]
     ELSE LET cffLicenses == cffLicense.texts
              normalizedCffLicenses ==
                [k \in 1..Len(cffLicenses) |-> normalizeLicense(cffLicenses[k])]
              licenseFileLower == LowerCased(licenseFileContent[1])
              detectedLicense == DetectedLicense(licenseFileLower)
              normalizedFileLicense == normalizeLicense(detectedLicense)
              areCompatible ==
                \E k \in 1..Len(normalizedCffLicenses) :
                  \/ Includes(normalizedCffLicenses[k], normalizedFileLicense)
                  \/ Includes(normalizedFileLicense, normalizedCffLicenses[k])
          IN IF detectedLicense = <<>>
             THEN [areCompatible |-> TRUE,
                   warnings |-> <<LicenseWarning(
                     "Could not detect license type from LICENSE file content", <<>>)>>]
             ELSE [areCompatible |-> areCompatible,
                   warnings |->
                     IF ~areCompatible
                     THEN <<LicenseWarning(
                            "License mismatch: CITATION.cff specifies \"{0}\" but LICENSE file appears to be \"{1}\"",
                            <<JoinTexts(cffLicenses, <<",", " ">>), detectedLicense>>)>>
                     ELSE <<>>]

\* ---------------------------------------------------------- its inputs
InitCompareLicenses ==
  LET \* phrases a LICENSE file is made of
      LicensePhrases ==
        {<<"M", "I", "T", " ", "L", "i", "c", "e", "n", "s", "e">>,
         <<"A", "p", "a", "c", "h", "e", " ", "L", "i", "c", "e", "n", "s", "e">>,
         <<"G", "N", "U", " ", "G", "P", "L">>,
         <<"L", "i", "m", "i", "t", "a", "t", "i", "o", "n", " ", "o", "f", " ", "L", "i", "a", "b", "i", "l", "i", "t", "y">>,
         <<"A", "l", "l", " ", "r", "i", "g", "h", "t", "s", " ", "r", "e", "s", "e", "r", "v", "e", "d">>}
      \* LICENSE contents: none, empty, one phrase, two phrases
      LicenseContents ==
        {None, Some(<<>>)}
        \cup {Some(p) : p \in LicensePhrases}
        \cup {Some(p \o <<" ">> \o q) : p, q \in LicensePhrases}
      OneLicense(text) == [isArray |-> FALSE, present |-> TRUE, texts |-> <<text>>]
      \* license values of CITATION.cff
      CffLicenses ==
        {[isArray |-> FALSE, present |-> FALSE, texts |-> <<>>], OneLicense(<<>>)}
        \cup {OneLicense(t) : t \in {<<"M", "I", "T">>,
                                   <<"A", "p", "a", "c", "h", "e", "-", "2", ".", "0">>,
                                   <<"G", "P", "L", "-", "3", ".", "0">>,
                                   <<"P", "r", "o", "p", "r", "i", "e", "t", "a", "r", "y">>}}
        \cup {[isArray |-> TRUE, present |-> TRUE,
               texts |-> <<<<"M", "I", "T">>,
                           <<"A", "p", "a", "c", "h", "e", "-", "2", ".", "0">>>>]}
  IN /\ PipelineIdle
     /\ call \in { [fn |-> "compareLicenses", cffLicense |-> l,
                    licenseFileContent |-> c, result |-> None] :
                     l \in CffLicenses, c \in LicenseContents }

CompareLicensesReturns ==
  /\ call.fn = "compareLicenses"
  /\ call.result = None
  /\ call' = [call EXCEPT
                !.result = Some(compareLicenses(call.cffLicense, call.licenseFileContent))]
  /\ UNCHANGED <<store, runs, turn>>

SpecCompareLicenses == InitCompareLicenses /\ [][CompareLicensesReturns]_vars

\* ================================================ createUnifiedMetadata
InitCreateUnifiedMetadata ==
  LET \* repository descriptors: description and language may be null
      RepoInfos ==
        { [owner |-> "owner", name |-> "repo", fullName |-> "owner/repo",
           description |-> d, language |-> l] :
            d \in {Undefined, "A tool"}, l \in {Undefined, "Python", "R"} }
      \* tool specifications: no parameters field, an empty mapping, one parameter
      ToolSpecs ==
        { [title |-> t, description |-> d, parameters |-> p] :
            t \in {"MyTool", ""}, d \in {"Does X.", ""},
            p \in {None, Some(<<>>), Some(<<[name |-> "threshold", type |-> "float"]>>)} }
      \* parsed citations, or null
      Citations ==
        {None}
        \cup { Some([title |-> "MyTool", version |-> v, license |-> "MIT", keywords |-> k]) :
                 v \in {Undefined, "1.2.0"},
                 k \in {<<>>, <<"hydrology", "python", "hydrology">>, <<"r", "tool-spec">>} }
      \* the repositoryVersion argument: left out, empty, a tag
      RepositoryVersions == {Undefined, "", "v2.0"}
  IN /\ PipelineIdle
     /\ call \in { [fn |-> "createUnifiedMetadata", repoInfo |-> ri, toolSpec |-> ts,
                    citationCff |-> cff, repositoryVersion |-> rv, result |-> None] :
                     ri \in RepoInfos, ts \in ToolSpecs, cff \in Citations,
                     rv \in RepositoryVersions }

CreateUnifiedMetadataReturns ==
  /\ call.fn = "createUnifiedMetadata"
  /\ call.result = None
  /\ call' = [call EXCEPT
                !.result = Some(createUnifiedMetadata(
                                  call.repoInfo, call.toolSpec, call.citationCff,
                                  None, Undefined, call.repositoryVersion))]
  /\ UNCHANGED <<store, runs, turn>>

SpecCreateUnifiedMetadata ==
  InitCreateUnifiedMetadata /\ [][CreateUnifiedMetadataReturns]_vars

\* ======================================= CwlExporter.mapToolSpecTypeToCwl
\* CWL types: a type name, a union (array of names), an array-of type, an enum
CwlName(name) == [kind |-> "name", name |-> name]
CwlEnum(symbols) == [kind |-> "enum", symbols |-> symbols]

\* if (paramDef.optional), if (paramDef.array): the flag is set and true
IsSet(flag) == flag = Some(TRUE)

\* mapToolSpecTypeToCwl(paramDef)
mapToolSpecTypeToCwl(paramDef) ==
  IF paramDef.type = "enum"
  THEN CwlEnum(IF paramDef.values # None THEN paramDef.values[1] ELSE <<>>)
  ELSE LET name == CASE paramDef.type = "string" -> "string"
                     [] paramDef.type = "integer" -> "int"
                     [] paramDef.type = "float" -> "float"
                     [] paramDef.type = "boolean" -> "boolean"
                     [] paramDef.type = "asset" -> "File"
                     [] OTHER -> "string"
           baseType == IF IsSet(paramDef.optional)
                       THEN [kind |-> "union", names |-> <<"null", name>>]
                       ELSE CwlName(name)
       IN IF IsSet(paramDef.array)
          THEN [kind |-> "array", items |-> baseType] ELSE baseType

\* the parameter types of a tool spec
ParameterTypes == {"string", "integer", "float", "boolean", "enum", "asset"}

\* a flag of a parameter definition: missing, false, true
Flags == {None, Some(FALSE), Some(TRUE)}

\* parameter definitions: every type (and one the switch does not know) with
\* every setting of optional and array; values for enum
InitMapToolSpecTypeToCwl ==
  LET ParameterDefs ==
        { [type |-> t, optional |-> o, array |-> a, values |-> None] :
            t \in (ParameterTypes \ {"enum"}) \cup {"date"}, o \in Flags, a \in Flags }
        \cup { [type |-> "enum", optional |-> o, array |-> a, values |-> v] :
                 o \in Flags, a \in Flags, v \in {None, Some(<<"low", "high">>)} }
  IN /\ PipelineIdle
     /\ call \in { [fn |-> "mapToolSpecTypeToCwl", paramDef |-> d, result |-> None] :
                     d \in ParameterDefs }

MapToolSpecTypeToCwlReturns ==
  /\ call.fn = "mapToolSpecTypeToCwl"
  /\ call.result = None
  /\ call' = [call EXCEPT !.result = Some(mapToolSpecTypeToCwl(call.paramDef))]
  /\ UNCHANGED <<store, runs, turn>>

SpecMapToolSpecTypeToCwl ==
  InitMapToolSpecTypeToCwl /\ [][MapToolSpecTypeToCwlReturns]_vars

\* ======================================================= GalaxyExporter
\* whitespace String.prototype.trim removes
IsSpace(c) == c \in {" ", "\t", "\n"}

RECURSIVE TrimStart(_)
TrimStart(text) ==
  IF text # <<>> /\ IsSpace(Head(text)) THEN TrimStart(Tail(text)) ELSE text

RECURSIVE TrimEnd(_)
TrimEnd(text) ==
  IF text # <<>> /\ IsSpace(text[Len(text)])
  THEN TrimEnd(SubSeq(text, 1, Len(text) - 1)) ELSE text

\* String.prototype.trim
Trim(text) == TrimEnd(TrimStart(text))

\* text.replace(/c/g, by) for a one-character pattern
RECURSIVE ReplaceAll(_, _, _)
ReplaceAll(text, c, by) ==
  IF text = <<>> THEN <<>>
  ELSE (IF Head(text) = c THEN by ELSE <<Head(text)>>) \o ReplaceAll(Tail(text), c, by)

\* an escaping that replaces & last, after the entities were inserted
sanitizeXmlAmpersandLast(text) ==
  ReplaceAll(
    ReplaceAll(
      ReplaceAll(
        ReplaceAll(
          ReplaceAll(text, "<", <<"&", "l", "t", ";">>),
          ">", <<"&", "g", "t", ";">>),
        "\"", <<"&", "q", "u", "o", "t", ";">>),
      "'", <<"&", "a", "p", "o", "s", ";">>),
    "&", <<"&", "a", "m", "p", ";">>)

\* sanitizeXml: & first, then < > " '
sanitizeXml(text) ==
  ReplaceAll(
    ReplaceAll(
      ReplaceAll(
        ReplaceAll(
          ReplaceAll(text, "&", <<"&", "a", "m", "p", ";">>),
          "<", <<"&", "l", "t", ";">>),
        ">", <<"&", "g", "t", ";">>),
      "\"", <<"&", "q", "u", "o", "t", ";">>),
    "'", <<"&", "a", "p", "o", "s", ";">>)

\* text.replace(/c+/g, c): runs of c collapsed
RECURSIVE Collapsed(_, _)
Collapsed(text, c) ==
  IF Len(text) < 2 THEN text
  ELSE IF text[1] = c /\ text[2] = c THEN Collapsed(Tail(text), c)
  ELSE <<text[1]>> \o Collapsed(Tail(text), c)

\* text.toLowerCase().replace(/[^a-z0-9]/g, c).replace(/c+/g, c)
\* .replace(/^c|c$/g, ''): the last takes one c off each end
Slug(text, c) ==
  LET lowered == LowerCased(text)
      replaced == [k \in 1..Len(lowered) |->
                     IF IsLowerAlnum(lowered[k]) THEN lowered[k] ELSE c]
      collapsed == Collapsed(replaced, c)
      front == IF collapsed # <<>> /\ Head(collapsed) = c THEN Tail(collapsed)
               ELSE collapsed
  IN IF front # <<>> /\ front[Len(front)] = c
     THEN SubSeq(front, 1, Len(front) - 1) ELSE front

\* GalaxyExporter.generateToolId(repoName)
generateToolId(repoName) == Slug(repoName, "_") \o <<"_", "v", "1">>

\* getShortDescription(description)
getShortDescription(description) ==
  LET \* the end of the first sentence: the first of . ! ? after at least one
      \* other character (0: none)
      SentenceEnd ==
        IF \E k \in 2..Len(description) : description[k] \in {".", "!", "?"}
             /\ \A j \in 1..(k - 1) : description[j] \notin {".", "!", "?"}
        THEN CHOOSE k \in 2..Len(description) : description[k] \in {".", "!", "?"}
               /\ \A j \in 1..(k - 1) : description[j] \notin {".", "!", "?"}
        ELSE 0
  IN IF description = <<>> THEN <<>>
     ELSE IF SentenceEnd > 0 THEN Trim(SubSeq(description, 1, SentenceEnd))
     ELSE Trim(SubSeq(description, 1,
                      IF Len(description) < 100 THEN Len(description) ELSE 100))

\* mapToolSpecTypeToGalaxy(type)
mapToolSpecTypeToGalaxy(type) ==
  CASE type = "string" -> "text"
    [] type = "integer" -> "integer"
    [] type = "float" -> "float"
    [] type = "boolean" -> "boolean"
    [] type = "enum" -> "select"
    [] type = "asset" -> "data"
    [] OTHER -> "text"

\* a missing optional text
Missing(value) == value = None \/ value[1] = <<>>

\* buildInputs(data): the param elements, of the data inputs and then of the
\* parameters (buildDataInput, buildParameterInput), by their attributes and
\* option elements; the format of a data input comes from a fixed table
buildInputs(data) ==
  LET \* name.replace(/_/g, ' ').replace(/\b\w/g, l => l.toUpperCase())
      IsWord(c) ==
        \/ IsLowerAlnum(c)
        \/ \E k \in DOMAIN UpperCaseLetters : UpperCaseLetters[k] = c
      UpperChar(c) ==
        IF \E k \in DOMAIN LowerCaseLetters : LowerCaseLetters[k] = c
        THEN UpperCaseLetters[CHOOSE k \in DOMAIN LowerCaseLetters : LowerCaseLetters[k] = c]
        ELSE c
      Label(name) ==
        LET spaced == [k \in 1..Len(name) |-> IF name[k] = "_" THEN " " ELSE name[k]]
        IN [k \in 1..Len(spaced) |->
              IF IsWord(spaced[k]) /\ (k = 1 \/ ~IsWord(spaced[k - 1]))
              THEN UpperChar(spaced[k]) ELSE spaced[k]]
      Sanitized(optional) ==
        IF Missing(optional) THEN None ELSE Some(sanitizeXml(optional[1]))
      dataItems == IF data.toolSpec.data = None THEN <<>> ELSE data.toolSpec.data[1]
      parameters ==
        IF data.toolSpec.parameters = None THEN <<>> ELSE data.toolSpec.parameters[1]
      numeric(paramDef) == paramDef.type \in {"integer", "float"}
  IN [k \in 1..Len(dataItems) |->
        [name |-> sanitizeXml(dataItems[k].name),
         type |-> "data",
         label |-> sanitizeXml(Label(dataItems[k].name)),
         format |-> Some("data"),
         optional |-> FALSE,
         value |-> None, min |-> None, max |-> None,
         help |-> Sanitized(dataItems[k].description),
         options |-> <<>>]]
     \o [k \in 1..Len(parameters) |->
           [name |-> sanitizeXml(parameters[k].name),
            type |-> mapToolSpecTypeToGalaxy(parameters[k].type),
            label |-> sanitizeXml(Label(parameters[k].name)),
            format |-> None,
            optional |-> IsSet(parameters[k].optional),
            \* String(paramDef.default), when it is neither undefined nor null
            value |-> IF parameters[k].default = None THEN None
                      ELSE Some(sanitizeXml(parameters[k].default[1])),
            min |-> IF numeric(parameters[k]) THEN parameters[k].min ELSE None,
            max |-> IF numeric(parameters[k]) THEN parameters[k].max ELSE None,
            help |-> Sanitized(parameters[k].description),
            options |->
              IF parameters[k].type = "enum" /\ parameters[k].values # None
              THEN [j \in 1..Len(parameters[k].values[1]) |->
                      sanitizeXml(parameters[k].values[1][j])]
              ELSE <<>>]]

\* an optional text of a configuration: value || fallback
OrElse(value, fallback) ==
  IF value # None /\ value[1] # <<>> THEN value[1] ELSE fallback

\* what export returns: the document, or the error it throws
Returned(document) == [threw |-> FALSE, message |-> "", document |-> Some(document)]

\* a choice of configuration that looks at the argument only
EffectiveConfigArgumentOnly(data, galaxyConfig) == galaxyConfig

\* galaxyConfig || data.galaxyConfig
EffectiveConfig(data, galaxyConfig) ==
  IF galaxyConfig # None THEN galaxyConfig ELSE data.galaxyConfig

\* buildToolXml(options), as the elements and attributes of the tool document
buildToolXml(options) ==
  [toolId |-> sanitizeXml(options.toolId),
   name |-> sanitizeXml(options.name),
   version |-> sanitizeXml(options.version),
   profile |-> sanitizeXml(options.profile),
   description |-> sanitizeXml(options.shortDescription),
   help |-> sanitizeXml(options.help),
   interpreter |->
     IF Includes(options.command, <<"p", "y", "t", "h", "o", "n">>) THEN "python"
     ELSE IF Includes(options.command, <<"p", "e", "r", "l">>) THEN "perl"
     ELSE IF Includes(options.command, <<"R", "s", "c", "r", "i", "p", "t">>) THEN "Rscript"
     ELSE "none",
   command |-> sanitizeXml(options.command),
   inputs |-> options.inputs,
   outputs |-> [k \in 1..Len(options.outputs) |->
                  [name |-> sanitizeXml(options.outputs[k].name),
                   label |-> sanitizeXml(options.outputs[k].label),
                   format |-> sanitizeXml(options.outputs[k].format),
                   \* <change_format><when ... value, format>, with a description
                   changeFormat |->
                     IF Missing(options.outputs[k].description) THEN None
                     ELSE Some(sanitizeXml(options.outputs[k].format))]],
   container |-> IF Missing(options.container) THEN None
                 ELSE Some(sanitizeXml(options.container[1])),
   \* <citations>: the name element and the author elements
   citations |->
     IF options.authors # <<>> \/ options.citations.title # <<>>
     THEN Some([name |-> IF options.citations.title # <<>>
                         THEN Some(sanitizeXml(options.citations.title)) ELSE None,
                authors |->
                  [k \in 1..Len(options.authors) |->
                     [name |-> IF options.authors[k].name # <<>>
                               THEN Some(sanitizeXml(options.authors[k].name)) ELSE None,
                      email |-> IF Missing(options.authors[k].email) THEN None
                                ELSE Some(sanitizeXml(options.authors[k].email[1]))]]])
     ELSE None]

\* GalaxyExporter.export(data, galaxyConfig?)
GalaxyExport(data, galaxyConfig) ==
  LET config == EffectiveConfig(data, galaxyConfig)
  IN IF config = None
     THEN [threw |-> TRUE, message |-> "Galaxy configuration is required for export",
           document |-> None]
     ELSE Returned(buildToolXml(
            [toolId |-> generateToolId(data.repository.name),
             name |-> data.name,
             version |-> data.version,
             profile |-> OrElse(config[1].profile, <<"2", "4", ".", "0">>),
             shortDescription |-> getShortDescription(data.description),
             help |-> data.description,
             command |-> OrElse(config[1].command, <<>>),
             inputs |-> buildInputs(data),
             outputs |-> config[1].outputs,
             container |-> config[1].container,
             citations |-> data.citation,
             authors |-> data.authors]))

\* an entry of the list validate returns (index: the output it is about)
ValidationError(text, index) == [text |-> text, index |-> index]

\* BaseExporter.validate(data)
BaseValidate(data) ==
  (IF data.name = <<>> THEN <<ValidationError("Name is required", 0)>> ELSE <<>>)
  \o (IF data.description = <<>>
      THEN <<ValidationError("Description is required", 0)>> ELSE <<>>)
  \o (IF data.authors = <<>>
      THEN <<ValidationError("At least one author is required", 0)>> ELSE <<>>)

\* the errors validate pushes for the outputs, in order
RECURSIVE OutputErrors(_, _)
OutputErrors(outputs, index) ==
  IF index > Len(outputs) THEN <<>>
  ELSE (IF Trim(outputs[index].name) = <<>>
        THEN <<ValidationError("Output {index}: name is required", index)>> ELSE <<>>)
       \o (IF Trim(outputs[index].label) = <<>>
           THEN <<ValidationError("Output {index}: label is required", index)>> ELSE <<>>)
       \o (IF Trim(outputs[index].format) = <<>>
           THEN <<ValidationError("Output {index}: format is required", index)>> ELSE <<>>)
       \o OutputErrors(outputs, index + 1)

\* GalaxyExporter.validate(data, galaxyConfig?)
GalaxyValidate(data, galaxyConfig) ==
  LET config == EffectiveConfig(data, galaxyConfig)
  IN IF config = None
     THEN BaseValidate(data) \o <<ValidationError("Galaxy configuration is required", 0)>>
     ELSE BaseValidate(data)
          \o (IF Missing(config[1].command) \/ Trim(config[1].command[1]) = <<>>
              THEN <<ValidationError("Command is required for Galaxy export", 0)>>
              ELSE <<>>)
          \o OutputErrors(config[1].outputs, 1)

\* ---------------------------------------------------------- its inputs
\* an author of the metadata record
Author(name) == [name |-> name, email |-> None]

\* metadata records handed to the exporters; galaxyConfig is filled in below
ExportData ==
  { [name |-> n, description |-> d, version |-> <<"l", "a", "t", "e", "s", "t">>,
     repository |-> [name |-> <<"m", "y", "-", "R", "e", "p", "o">>, fullName |-> f],
     authors |-> a,
     citation |-> [title |-> n],
     toolSpec |-> [data |-> IF p = None THEN None
                            ELSE Some(<<[name |-> <<"i", "n", "_", "f", "i", "l", "e">>,
                                         description |-> Some(<<"r", "o", "w", "s", " ", ">", " ", "0">>)]>>),
                   parameters |-> p],
     galaxyConfig |-> None] :
      n \in {<<>>, <<"M", "y", " ", "\"", "T", "o", "o", "l", "\"">>},
      f \in {<<>>, <<"/", "r", "e", "p", "o">>, <<"o", "w", "n", "e", "r", "/", "r", "e", "p", "o">>},
      d \in {<<>>, <<"D", "o", "e", "s", " ", "<", "X", ">", ".", " ", "F", "o", "r", " ", "R", "&", "D", ";", " ", "n", "o", "t", " ", "&", "l", "t", ";", ".">>},
      a \in {<<>>, <<[Author(<<"J", "a", "n", "e", " ", "O", "'", "D", "o", "e">>) EXCEPT !.email = Some(<<"<", "j", "a", "n", "e", "@", "x", ".", "o", "r", "g", ">">>)]>>},
      p \in {None,
             Some(<<[name |-> <<"t", "h", "r", "e", "s", "h", "o", "l", "d", "_", "m", "a", "x">>, type |-> "float",
                     optional |-> Some(TRUE), array |-> None, values |-> None,
                     default |-> Some(<<"<", "1", ">">>), min |-> Some(0), max |-> None,
                     description |-> Some(<<"a", " ", "&", " ", "b">>)],
                    [name |-> <<"m", "o", "d", "e", "<", "2", ">">>, type |-> "enum",
                     optional |-> None, array |-> None,
                     values |-> Some(<<<<"a", "<", "b">>, <<"\"", "q", "\"">>>>),
                     default |-> None, min |-> None, max |-> None,
                     description |-> None]>>)} }

\* Galaxy configurations, as the page and createUnifiedMetadata build them:
\* the command is missing, empty, blank, a script, or a script run by python
GalaxyConfigs ==
  LET GalaxyOutput(name, label, format, description) ==
        [name |-> name, label |-> label, format |-> format,
         description |-> description]
      out == GalaxyOutput(<<"o", "u", "t">>, <<"O", "u", "t", "p", "u", "t", " ", "<", "f", "i", "l", "e", ">">>, <<"t", "x", "t">>, Some(<<"T", "h", "e", " ", "'", "r", "e", "s", "u", "l", "t", "'">>))
      unnamed == GalaxyOutput(<<" ">>, <<"O", "u", "t", "p", "u", "t", " ", "f", "i", "l", "e">>, <<>>, None)
  IN { [command |-> c, container |-> k, containerVersion |-> None,
        outputs |-> o, profile |-> Some(<<"2", "4", ".", "0">>)] :
         c \in {None, Some(<<>>), Some(<<" ", " ">>), Some(<<"r", "u", "n", ".", "s", "h", " ", "2", ">", "&", "1">>),
                Some(<<"p", "y", "t", "h", "o", "n", " ", "r", "u", "n", ".", "p", "y">>)},
         k \in {None, Some(<<"g", "h", "c", "r", ".", "i", "o", "/", "o", "w", "n", "e", "r", "/", "r", "e", "p", "o", ":", "l", "a", "t", "e", "s", "t">>)},
         o \in {<<>>, <<out>>, <<out, unnamed>>} }

\* the configuration createUnifiedMetadata stages in the record
StagedGalaxyConfig ==
  [command |-> None, container |-> Some(<<"g", "h", "c", "r", ".", "i", "o", "/", "o", "w", "n", "e", "r", "/", "r", "e", "p", "o", ":", "l", "a", "t", "e", "s", "t">>), containerVersion |-> None,
   outputs |-> <<>>, profile |-> Some(<<"2", "4", ".", "0">>)]

\* ========================================================== CwlExporter
\* cwlConfig || {cwlVersion: 'v1.2', outputs: [], baseCommand: undefined,
\* container: data.galaxyConfig?.container}
CwlEffectiveConfig(data, cwlConfig) ==
  IF cwlConfig # None THEN cwlConfig[1]
  ELSE [cwlVersion |-> "v1.2", outputs |-> <<>>, baseCommand |-> None,
        container |-> IF data.galaxyConfig # None
                      THEN data.galaxyConfig[1].container ELSE None]

\* CwlExporter.buildInputs(data): name and type of each input
CwlBuildInputs(data) ==
  IF data.toolSpec.parameters = None THEN <<>>
  ELSE LET parameters == data.toolSpec.parameters[1]
       IN [k \in 1..Len(parameters) |->
             [name |-> parameters[k].name,
              type |-> mapToolSpecTypeToCwl(parameters[k])]]

\* CwlExporter.export(data, cwlConfig?): the CommandLineTool document, by
\* its entries
CwlExport(data, cwlConfig) ==
  LET config == CwlEffectiveConfig(data, cwlConfig)
      \* config.container || data.galaxyConfig?.container
      container ==
        IF ~Missing(config.container) THEN config.container
        ELSE IF data.galaxyConfig # None /\ ~Missing(data.galaxyConfig[1].container)
        THEN data.galaxyConfig[1].container
        ELSE None
      inputs == CwlBuildInputs(data)
  IN Returned(
       [cwlVersion |-> config.cwlVersion,
        \* generateToolId(name)
        id |-> Slug(data.name, "-"),
        label |-> data.name,
        doc |-> data.description,
        inputs |-> inputs,
        outputs |-> config.outputs,
        \* baseCommand ['sh', '-c'] with the docker command: only with a container
        container |-> container,
        baseCommand |-> IF container # None THEN config.baseCommand ELSE None,
        workDirRequirement |-> inputs # <<>>,
        \* v1.2: s:author / s:version entries; v1.1: appended to doc
        metadataIn |-> IF config.cwlVersion = "v1.2" THEN "namespace" ELSE "doc",
        authors |-> [k \in 1..Len(data.authors) |-> data.authors[k].name],
        version |-> data.version])

\* the errors CwlExporter.validate pushes for the outputs, in order
RECURSIVE CwlOutputErrors(_, _)
CwlOutputErrors(outputs, index) ==
  IF index > Len(outputs) THEN <<>>
  ELSE (IF Trim(outputs[index].name) = <<>>
        THEN <<ValidationError("Output {index}: name is required", index)>> ELSE <<>>)
       \o (IF Trim(outputs[index].type) = <<>>
           THEN <<ValidationError("Output {index}: type is required", index)>> ELSE <<>>)
       \o (IF Trim(outputs[index].glob) = <<>>
           THEN <<ValidationError("Output {index}: glob pattern is required", index)>>
           ELSE <<>>)
       \o CwlOutputErrors(outputs, index + 1)

\* CwlExporter.validate(data, cwlConfig?)
CwlValidate(data, cwlConfig) ==
  LET config == CwlEffectiveConfig(data, cwlConfig)
  IN BaseValidate(data)
     \o (IF CwlBuildInputs(data) = <<>> /\ config.outputs = <<>>
         THEN <<ValidationError(
                  "CWL CommandLineTool requires at least one input or output", 0)>>
         ELSE <<>>)
     \o CwlOutputErrors(config.outputs, 1)

\* ========================================================= DoapExporter
\* the text before the first "/" : fullName.split('/')[0]
BeforeSlash(text) ==
  IF \E k \in 1..Len(text) : text[k] = "/"
  THEN SubSeq(text, 1, (CHOOSE k \in 1..Len(text) :
                          text[k] = "/" /\ \A j \in 1..(k - 1) : text[j] # "/") - 1)
  ELSE text

\* a chain that asks the authors before the repository owner
resolveMaintainerAuthorsFirst(data, doapConfig) ==
  IF doapConfig # None /\ doapConfig[1].maintainer # None
  THEN doapConfig[1].maintainer
  ELSE IF data.authors # <<>> THEN Some(data.authors[1])
  ELSE IF data.repository.fullName # <<>> /\ BeforeSlash(data.repository.fullName) # <<>>
  THEN Some(Author(BeforeSlash(data.repository.fullName)))
  ELSE None

\* resolveMaintainer(data, doapConfig): the author, or None for null
resolveMaintainer(data, doapConfig) ==
  IF doapConfig # None /\ doapConfig[1].maintainer # None
  THEN doapConfig[1].maintainer
  ELSE IF data.repository.fullName # <<>> /\ BeforeSlash(data.repository.fullName) # <<>>
  THEN Some(Author(BeforeSlash(data.repository.fullName)))
  ELSE IF data.authors # <<>> THEN Some(data.authors[1])
  ELSE None

\* a triple about the project
Triple(predicate, object) == [predicate |-> predicate, object |-> object]

\* DoapExporter.export(data, doapConfig?): the serialisation format and the
\* triples about the project, in order
DoapExport(data, doapConfig) ==
  LET format == IF doapConfig # None /\ doapConfig[1].format # None
                THEN doapConfig[1].format[1] ELSE "turtle"
      shortDesc == getShortDescription(data.description)
      maintainer == resolveMaintainer(data, doapConfig)
  IN Returned(
       [format |-> format,
        triples |->
          <<Triple("doap:name", data.name), Triple("doap:description", data.description)>>
          \o (IF shortDesc # <<>> THEN <<Triple("doap:shortdesc", shortDesc)>> ELSE <<>>)
          \o (IF maintainer # None
              THEN <<Triple("doap:maintainer", maintainer[1].name)>> ELSE <<>>)
          \o [k \in 1..Len(data.authors) |-> Triple("doap:developer", data.authors[k].name)]
          \o (IF data.version # <<>> THEN <<Triple("doap:revision", data.version)>> ELSE <<>>)])

\* DoapExporter.validate(data, doapConfig?)
DoapValidate(data, doapConfig) ==
  BaseValidate(data)
  \o (IF resolveMaintainer(data, doapConfig) = None
      THEN <<ValidationError(
               "Maintainer is required for DOAP (could not resolve from repository owner or authors)",
               0)>>
      ELSE <<>>)

\* ============================================ the exporters as the page
\* calls them: the same metadata record and configuration, again and again
\* calls of export, and of validate, for one record and configuration
MaxCalls == 2

\* exporter.export(data, config) of the format
Export(format, data, config) ==
  CASE format = "galaxy" -> GalaxyExport(data, config)
    [] format = "cwl" -> CwlExport(data, config)
    [] format = "doap" -> DoapExport(data, config)

\* exporter.validate(data, config) of the format
Validate(format, data, config) ==
  CASE format = "galaxy" -> GalaxyValidate(data, config)
    [] format = "cwl" -> CwlValidate(data, config)
    [] format = "doap" -> DoapValidate(data, config)

\* an export that stages the configuration it was given in the record
LeftBehindStagingConfig(format, data, config) ==
  [data |-> IF config # None THEN [data EXCEPT !.galaxyConfig = config] ELSE data,
   config |-> config]

\* the arguments after export or validate returned: no statement of the
\* exporters assigns to a property of data or of the configuration
LeftBehind(format, data, config) == [data |-> data, config |-> config]

\* a metadata record, with or without the configuration createUnifiedMetadata
\* stages in it, a format of the export dialog and the configuration the page
\* builds for the call (or none)
InitExporter ==
  LET CwlConfigs ==
        { [cwlVersion |-> v, outputs |-> o, baseCommand |-> b, container |-> k] :
            v \in {"v1.1", "v1.2"},
            o \in {<<>>, <<[name |-> <<"o", "u", "t">>, type |-> <<"F", "i", "l", "e">>,
                           glob |-> <<"*", ".", "t", "x", "t">>]>>},
            b \in {None, Some(<<"r", "u", "n", ".", "s", "h">>)},
            k \in {None, Some(<<"g", "h", "c", "r", ".", "i", "o", "/", "o", "w", "n", "e", "r", "/", "r", "e", "p", "o", ":", "l", "a", "t", "e", "s", "t">>)} }
      DoapConfigs ==
        { [maintainer |-> m, format |-> f] :
            m \in {None, Some(Author(<<"M", "a", "x", " ", "R", "o", "e">>))},
            f \in {None, Some("turtle"), Some("rdfxml")} }
      ConfigsOf(format) ==
        {None} \cup
        (CASE format = "galaxy" -> {Some(c) : c \in GalaxyConfigs}
           [] format = "cwl" -> {Some(c) : c \in CwlConfigs}
           [] format = "doap" -> {Some(c) : c \in DoapConfigs})
  IN /\ PipelineIdle
     /\ call \in
          UNION { { [fn |-> "exporter", format |-> format,
                     data |-> [d EXCEPT !.galaxyConfig = staged],
                     config |-> config, exports |-> <<>>, validations |-> <<>>] :
                      d \in ExportData,
                      staged \in {None, Some(StagedGalaxyConfig)},
                      config \in ConfigsOf(format) } :
                  format \in {"galaxy", "cwl", "doap"} }

\* exporter.export(metadata, config) once more
ExportCalled ==
  /\ call.fn = "exporter"
  /\ Len(call.exports) < MaxCalls
  /\ LET left == LeftBehind(call.format, call.data, call.config)
     IN call' = [call EXCEPT
                   !.exports = Append(@, Export(call.format, call.data, call.config)),
                   !.data = left.data, !.config = left.config]
  /\ UNCHANGED <<store, runs, turn>>

\* exporter.validate(metadata, config) once more
ValidateCalled ==
  /\ call.fn = "exporter"
  /\ Len(call.validations) < MaxCalls
  /\ LET left == LeftBehind(call.format, call.data, call.config)
     IN call' = [call EXCEPT
                   !.validations = Append(@, Validate(call.format, call.data, call.config)),
                   !.data = left.data, !.config = left.config]
  /\ UNCHANGED <<store, runs, turn>>

SpecExporter == InitExporter /\ [][ExportCalled \/ ValidateCalled]_vars

\* ===================================================== parseCitationCff
\* What a parser made of the CITATION.cff text: an object (kind "object") with
\*   title: "missing", "text" or "number";
\*   authors: None, or Some(list) of entries [object, name, given, family]
\*            (object FALSE: null; the others: the field is set);
\*   date: "missing", "date" (citation-js: issued with date-parts) or "raw"
\*         (citation-js: issued without date-parts);
\*   license, version: the field is set; link: "none", "url", "repository";
\* something that is no object (kind "other"); or the parser threw (kind
\* "throws").  For citation-js the fields are author/literal/given/family,
\* issued, URL, repository; for js-yaml authors/name/given-names/family-names,
\* date-released, url, repository-code.

\* a check that misses the empty list
AuthorsMissingOnlyWhenAbsent(authors) == authors = None

\* !parsed.author || !Array.isArray(parsed.author) || parsed.author.length === 0
AuthorsMissing(authors) == authors = None \/ authors[1] = <<>>

\* an entry of errors: the text and the position of the author whose index is
\* spliced into it (0: none)
CitationError(text, index) == [text |-> text, index |-> index]

\* the validation both parsers run on the object, with their own texts;
\* thrown: the conversion to CitationCff throws (caught by the parser's catch)
CitationValidation(parsed, texts, thrown) ==
  LET authors == IF parsed.authors = None THEN <<>> ELSE parsed.authors[1]
      AuthorErrors(k) ==
        IF ~authors[k].object
        THEN <<CitationError("Author at index {index} must be an object", k)>>
        ELSE IF ~authors[k].name /\ ~authors[k].given /\ ~authors[k].family
        THEN <<CitationError(texts.names, k)>>
        ELSE <<>>
      RECURSIVE AllAuthorErrors(_)
      AllAuthorErrors(k) ==
        IF k > Len(authors) THEN <<>> ELSE AuthorErrors(k) \o AllAuthorErrors(k + 1)
      errors ==
        (IF texts.titleMissing[parsed.title]
         THEN <<CitationError("Missing required field: \"title\"", 0)>> ELSE <<>>)
        \o (IF AuthorsMissing(parsed.authors)
            THEN <<CitationError(texts.authors, 0)>> ELSE <<>>)
        \o AllAuthorErrors(1)
      warnings ==
        (IF texts.version # "" /\ ~parsed.version THEN <<texts.version>> ELSE <<>>)
        \o (IF parsed.date = "missing" THEN <<texts.date>> ELSE <<>>)
        \o (IF ~parsed.license
            THEN <<"Field \"license\" is missing (recommended for proper citation)">>
            ELSE <<>>)
        \o (IF parsed.link = "none" THEN <<texts.link>> ELSE <<>>)
      \* (parsed.authors || []).map(author => ({... author.name ...})) on null
      mapThrows == \E k \in 1..Len(authors) : ~authors[k].object
  IN IF mapThrows \/ thrown
     THEN [isValid |-> FALSE, citationCff |-> None,
           errors |-> Append(errors, CitationError(texts.caught, 0)),
           warnings |-> warnings]
     ELSE [isValid |-> errors = <<>>,
           citationCff |-> Some([title |-> IF parsed.title = "missing" THEN ""
                                           ELSE parsed.title,
                                 authors |-> Len(authors)]),
           errors |-> errors, warnings |-> warnings]

\* parseCitationCffManually(yamlContent); loaded: what load(yamlContent) gave
parseCitationCffManually(loaded) ==
  IF loaded.kind = "throws"
  THEN [isValid |-> FALSE, citationCff |-> None,
        errors |-> <<CitationError("Manual parsing error: {message}", 0)>>,
        warnings |-> <<>>]
  ELSE IF loaded.kind = "other"
  THEN [isValid |-> FALSE, citationCff |-> None,
        errors |-> <<CitationError("Invalid YAML: Root must be an object", 0)>>,
        warnings |-> <<>>]
  ELSE CitationValidation(
         loaded,
         [titleMissing |-> [t \in {"missing", "text", "number"} |-> t # "text"],
          authors |-> "Missing required field: \"authors\" (must be a non-empty array)",
          names |-> "Author at index {index} must have either \"name\" or \"given-names\"/\"family-names\"",
          version |-> "Field \"version\" is missing (recommended for proper citation)",
          date |-> "Field \"date-released\" is missing (recommended for proper citation)",
          link |-> "Neither \"url\" nor \"repository-code\" field is present (recommended for proper citation)",
          caught |-> "Manual parsing error: {message}"],
         FALSE)

\* parseCitationCff(yamlContent); cited: what new Cite(yamlContent).data[0]
\* gave, loaded: what load(yamlContent) gives when new Cite threw
parseCitationCff(cited, loaded) ==
  IF cited.kind = "throws" THEN parseCitationCffManually(loaded)
  ELSE IF cited.kind = "other"
  THEN [isValid |-> FALSE, citationCff |-> None,
        errors |-> <<CitationError("Invalid CITATION.cff: Could not parse content", 0)>>,
        warnings |-> <<>>]
  ELSE CitationValidation(
         cited,
         [titleMissing |-> [t \in {"missing", "text", "number"} |-> t = "missing"],
          authors |-> "Missing required field: \"author\" (must be a non-empty array)",
          names |-> "Author at index {index} must have either \"literal\" or \"given\"/\"family\"",
          version |-> "",
          date |-> "Field \"issued\" (date) is missing (recommended for proper citation)",
          link |-> "Neither \"URL\" nor \"repository\" field is present (recommended for proper citation)",
          caught |-> "CITATION.cff parsing error: {message}"],
         \* parsed.issued['date-parts'][0] of an issued without date-parts
         cited.date = "raw")

\* the calls: citation-js succeeds (loaded is not asked for), or it throws
\* and js-yaml is asked
InitParseCitationCff ==
  LET Entry(object, name, given, family) ==
        [object |-> object, name |-> name, given |-> given, family |-> family]
      named == Entry(TRUE, TRUE, FALSE, FALSE)
      givenOnly == Entry(TRUE, FALSE, TRUE, FALSE)
      nameless == Entry(TRUE, FALSE, FALSE, FALSE)
      null == Entry(FALSE, FALSE, FALSE, FALSE)
      Objects ==
        { [kind |-> "object", title |-> t, authors |-> a, date |-> d,
           license |-> l, version |-> v, link |-> u] :
            t \in {"missing", "text", "number"},
            a \in {None, Some(<<>>), Some(<<named>>), Some(<<givenOnly>>),
                   Some(<<nameless>>), Some(<<named, nameless>>),
                   Some(<<nameless, named, nameless>>), Some(<<named, null>>)},
            d \in {"missing", "date", "raw"},
            l \in BOOLEAN, v \in BOOLEAN, u \in {"none", "url", "repository"} }
      NoObject(kind) ==
        [kind |-> kind, title |-> "missing", authors |-> None, date |-> "missing",
         license |-> FALSE, version |-> FALSE, link |-> "none"]
  IN /\ PipelineIdle
     /\ call \in
          { [fn |-> "parseCitationCff", cited |-> c, loaded |-> NoObject("throws"),
             result |-> None] : c \in Objects \cup {NoObject("other")} }
          \cup { [fn |-> "parseCitationCff", cited |-> NoObject("throws"),
                  loaded |-> l, result |-> None] :
                   l \in Objects \cup {NoObject("other"), NoObject("throws")} }

ParseCitationCffReturns ==
  /\ call.fn = "parseCitationCff"
  /\ call.result = None
  /\ call' = [call EXCEPT !.result = Some(parseCitationCff(call.cited, call.loaded))]
  /\ UNCHANGED <<store, runs, turn>>

SpecParseCitationCff == InitParseCitationCff /\ [][ParseCitationCffReturns]_vars

\* ===================================================== pipeline claims
\* status of the i-th declared check in the store ("absent": not in the map)
Status(i) ==
  IF MapHas(store.checks, checks[i].id)
  THEN MapGet(store.checks, checks[i].id).status ELSE "absent"

\* C1: once a required check (repo-exists, tool-yaml-exists, tool-yaml-valid,
\* metadata-conversion) is recorded as failed, every check declared after it
\* still has status pending (it was never marked running), and as soon as the
\* break statement is reached the state is error, canRetry is true and
\* canCancel is false.
C1_RequiredFailureStopsRun ==
  LET RequiredIds ==
        {"repo-exists", "tool-yaml-exists", "tool-yaml-valid", "metadata-conversion"}
      \* some invocation is between its merge and its break
      Halting == \E r \in Runs : runs[r].pc = "halt"
  IN \A i \in 1..NumChecks :
    (checks[i].id \in RequiredIds /\ Status(i) = "failed") =>
      /\ \A j \in (i + 1)..NumChecks : Status(j) = "pending"
      /\ ~Halting =>
           /\ store.state = "error"
           /\ store.canRetry
           /\ ~store.canCancel

\* tool-yaml-exists failed, the run is over, the four later checks are pending
C1_Witness ==
  /\ NoRunInFlight
  /\ Status(2) = "failed"
  /\ Status(1) = "completed"
  /\ \A j \in 3..NumChecks : Status(j) = "pending"
  /\ store.state = "error"

\* the text is an entry of the list
Recorded(text, list) == \E k \in 1..Len(list) : list[k] = text

ResultOf(i) == MapGet(store.checks, checks[i].id)

\* C2: a failed optional check (citation-cff-exists, license-check) does not
\* halt the run: no invocation stops at it, whenever the event loop is idle
\* the next declared check has already been marked running (or is finished),
\* and the warning and error texts of the failed result are in the lists.
C2_OptionalFailureContinues ==
  \A i \in {j \in 1..NumChecks : ~checks[j].isRequired} :
    Status(i) = "failed" =>
      /\ \A r \in Runs : ~(runs[r].idx = i /\ runs[r].pc \in {"halt", "done"})
      /\ turn = 0 => Status(i + 1) \in {"running", "completed", "failed"}
      /\ Truthy(ResultOf(i).warning) => Recorded(ResultOf(i).warning, store.warnings)
      /\ Truthy(ResultOf(i).error) => Recorded(ResultOf(i).error, store.errors)

\* citation-cff-exists failed, and the run ended with state completed
C2_Witness ==
  /\ NoRunInFlight
  /\ Status(4) = "failed"
  /\ Truthy(ResultOf(4).warning)
  /\ Status(5) = "completed"
  /\ Status(6) = "completed"
  /\ store.state = "completed"

\* C3: checks are started in declared order: a check that is running or
\* finished has only finished checks before it, so a check is marked running
\* only after the result of every earlier check was merged, and the map lists
\* the checks in declared order.
C3_DeclaredOrder ==
  /\ \A i \in 1..NumChecks :
       Status(i) \in {"running", "completed", "failed"} =>
         \A j \in 1..(i - 1) : Status(j) \in {"completed", "failed"}
  /\ \A k \in 1..Len(store.checks) : store.checks[k].id = checks[k].id

\* citation-cff-exists is running after the three checks before it completed
C3_Witness ==
  /\ Status(4) = "running"
  /\ \A j \in 1..3 : Status(j) = "completed"
  /\ \A j \in 5..NumChecks : Status(j) = "pending"

\* invocation r is inside check.executor: awaiting the provider, or between
\* the provider's answer and the executor's return
InExecutor(r) == runs[r].pc \in {"await1", "await2", "execUpdate"}

\* C4: no two check executors are in flight at the same time, also when
\* startAnalysis is invoked again while an earlier invocation is still
\* awaiting an executor.
C4_OneExecutorInFlight ==
  \A r, q \in Runs : (InExecutor(r) /\ InExecutor(q)) => r = q

\* the step is the first statement of a new startAnalysis call, or a
\* resetAnalysis call (New Search)
Restarted ==
  \/ \E r \in Runs : runs[r].pc = "idle" /\ runs'[r].pc = "seed"
  \/ /\ runs' = runs
     /\ store.state = "completed"
     /\ store'.state = "idle"

\* C5: once cancelAnalysis has set the state to cancelled, the orchestrator
\* marks no further check running: a check that is pending stays pending
\* until a new startAnalysis or resetAnalysis call.
C5_NoCheckStartedAfterCancel ==
  [][(store.state = "cancelled" /\ ~Restarted) =>
       \A i \in 1..NumChecks :
         Status(i) = "pending" =>
           MapGet(store'.checks, checks[i].id).status = "pending"]_vars

\* C6: completed, error and cancelled are terminal: a state holding one of
\* them changes only by a new startAnalysis or resetAnalysis call.
C6_TerminalStatesStay ==
  [][(store.state \in {"completed", "error", "cancelled"} /\ ~Restarted) =>
       store'.state = store.state]_vars

\* C7: in every state a subscriber of the store sees, state = completed implies
\* that metadata-conversion, repo-exists, tool-yaml-exists and tool-yaml-valid
\* have status completed.
C7_CompletedImpliesChecksCompleted ==
  store.state = "completed" =>
    \A i \in {1, 2, 3, NumChecks} : Status(i) = "completed"

\* invocation r has seeded the checks and not yet marked the first one running
BeforeFirstCheck(r) == runs[r].idx = 1 /\ runs[r].pc \in {"setCurrent", "markRunning"}

\* C8: before the first check of a run is marked running, the checks map holds
\* exactly the six declared checks in declared order, each pending, without
\* data, error or warning and with the isRequired flag of its declaration;
\* warnings and errors are empty and repoInfo, toolYaml, citationCff and
\* metadata are null.
C8_SeededBeforeFirstCheck ==
  \A r \in Runs :
    BeforeFirstCheck(r) =>
      /\ Len(store.checks) = 6
      /\ <<store.checks[1].id, store.checks[2].id, store.checks[3].id,
           store.checks[4].id, store.checks[5].id, store.checks[6].id>>
         = <<"repo-exists", "tool-yaml-exists", "tool-yaml-valid",
             "citation-cff-exists", "license-check", "metadata-conversion">>
      /\ \A k \in 1..6 :
           /\ store.checks[k].status = "pending"
           /\ store.checks[k].isRequired = (k \notin {4, 5})
           /\ store.checks[k].data = None
           /\ ~Truthy(store.checks[k].error)
           /\ ~Truthy(store.checks[k].warning)
      /\ store.warnings = <<>>
      /\ store.errors = <<>>
      /\ store.repoInfo = None
      /\ store.toolYaml = None
      /\ store.citationCff = None
      /\ store.metadata = None

\* the second invocation is about to mark its first check running while the
\* first invocation, which had collected an error, has ended
C8_Witness ==
  /\ BeforeFirstCheck(2)
  /\ runs[2].pc = "markRunning"
  /\ runs[1].pc = "done"
  /\ Truthy(runs[1].outcome.result.error)

IsPrefix(xs, ys) == Len(xs) <= Len(ys) /\ SubSeq(ys, 1, Len(xs)) = xs

\* the non-empty texts of one kind ("warning" or "error") of the finished
\* checks of the map, in map order
RECURSIVE TextsOf(_, _)
TextsOf(m, kind) ==
  IF Len(m) = 0 THEN <<>>
  ELSE LET last == m[Len(m)]
           front == TextsOf(SubSeq(m, 1, Len(m) - 1), kind)
           text == IF kind = "warning" THEN last.warning ELSE last.error
       IN IF last.status \in {"completed", "failed"} /\ Truthy(text)
          THEN Append(front, text) ELSE front

\* C9: warnings and errors are append-only during a run (every step that is
\* not a new startAnalysis or resetAnalysis call leaves each list a prefix of
\* its next value), and they are exactly the non-empty warning (resp. error)
\* strings of the executed checks' results, in execution order.
C9_TextsAppendOnly ==
  /\ [][~Restarted => /\ IsPrefix(store.warnings, store'.warnings)
                      /\ IsPrefix(store.errors, store'.errors)]_vars
  /\ [](/\ store.warnings = TextsOf(store.checks, "warning")
        /\ store.errors = TextsOf(store.checks, "error"))

\* a finished run that collected two warnings
C9_Witness ==
  /\ NoRunInFlight
  /\ store.state = "completed"
  /\ Len(store.warnings) >= 2
  /\ store.warnings[1] # store.warnings[2]

\* the step is an analysisStore.update call made inside an executor
ExecutorStep == \E r \in Runs : turn = r /\ runs[r].pc = "execUpdate"

\* C10 as stated: an executor leaves the shared AnalysisState unchanged.
C10_ExecutorsLeaveStoreUnchanged ==
  [][ExecutorStep => store' = store]_vars

\* C10 as amended: executors write repoInfo, toolYaml, citationCff, metadata,
\* progress and state themselves and nothing else; every other step of a run
\* and cancelAnalysis leave repoInfo, toolYaml, citationCff, metadata and
\* progress unchanged.
C10_ExecutorWritesOnlyItsFields ==
  [][/\ ExecutorStep =>
          /\ store'.checks = store.checks
          /\ store'.currentCheck = store.currentCheck
          /\ store'.warnings = store.warnings
          /\ store'.errors = store.errors
          /\ store'.canCancel = store.canCancel
          /\ store'.canRetry = store.canRetry
          /\ store'.repoUrl = store.repoUrl
     /\ (~ExecutorStep /\ ~Restarted) =>
          /\ store'.repoInfo = store.repoInfo
          /\ store'.toolYaml = store.toolYaml
          /\ store'.citationCff = store.citationCff
          /\ store'.metadata = store.metadata
          /\ store'.progress = store.progress]_vars

\* the repo-exists executor has written repoInfo and progress into the store
\* and its result is not merged yet; the store was cancelled meanwhile
C10_Witness ==
  \E r \in Runs :
    /\ runs[r].pc = "merge"
    /\ runs[r].idx = 1
    /\ Status(1) = "running"
    /\ store.repoInfo # None
    /\ store.progress = 20
    /\ store.state = "cancelled"

\* C11: the metadata record exists only by the metadata-conversion check of
\* the run succeeding: metadata is null in every state in which that check
\* has not succeeded (before it in the run, and for good when the check
\* failed or was never executed), and once set it is the same record in
\* every later state of the run (until a new search or a reset)
\* (succeeded: its completed result is merged, or the run holds it and is
\* about to merge)
C11_MetadataOnlyFromConversion ==
  /\ [](store.metadata # None =>
          \/ Status(NumChecks) = "completed"
          \/ \E r \in Runs :
               /\ runs[r].idx = NumChecks
               /\ runs[r].pc \in {"execUpdate", "merge"}
               /\ runs[r].outcome.result.status = "completed")
  /\ [][(store.metadata # None /\ ~Restarted)
          => store'.metadata = store.metadata]_vars

\* the second run of a behaviour has ended with its metadata record set
C11_Witness ==
  /\ runs[MaxRuns].pc = "done"
  /\ store.metadata # None
  /\ Status(NumChecks) = "completed"
\* member of a keyword list
Contains(xs, x) == \E k \in 1..Len(xs) : xs[k] = x

\* C13: for a repository with language Python, a valid src/tool.yml (title
\* MyTool, one float parameter), no CITATION.cff and no LICENSE: the run ends
\* with tool-yaml-valid completed, citation-cff-exists failed with the
\* warning "CITATION.cff file is missing ..." and no error, license-check
\* completed with the warning about the missing LICENSE, metadata-conversion
\* completed, state completed, and metadata with name MyTool, version latest
\* and keywords that contain tool-spec and python
C13_ScenarioResult ==
  runs[ScenarioRun].pc = "done"
    => /\ ResultOf(3).status = "completed"
       /\ ResultOf(4).status = "failed"
       /\ ResultOf(4).warning = "CITATION.cff file is missing (optional but recommended)"
       /\ ResultOf(4).error = Undefined
       /\ ResultOf(5).status = "completed"
       /\ ResultOf(5).warning = "LICENSE file is missing (recommended for legal clarity)"
       /\ ResultOf(6).status = "completed"
       /\ store.state = "completed"
       /\ store.metadata # None
       /\ store.metadata[1].name = "MyTool"
       /\ store.metadata[1].version = "latest"
       /\ Contains(store.metadata[1].keywords, "tool-spec")
       /\ Contains(store.metadata[1].keywords, "python")

\* the scenario run has ended, after an earlier run that was halted
C13_Witness ==
  /\ runs[ScenarioRun].pc = "done"
  /\ store.state = "completed"
  /\ \E r \in Runs : r # ScenarioRun /\ runs[r].outcome.result.status = "failed"
\* ------------------------------------------------ compareLicenses claims
\* compareLicenses has returned
Compared == call.fn = "compareLicenses" /\ call.result # None

\* the CFF license is present (not undefined, not the empty text)
CffLicensePresent == ~Falsy(call.cffLicense)

\* the LICENSE text is present (not null, not empty)
LicenseTextPresent ==
  call.licenseFileContent # None /\ call.licenseFileContent[1] # <<>>

\* the name of the k-th family appears in the LICENSE text
FamilyInText(k) ==
  Includes(LowerCased(call.licenseFileContent[1]), commonLicenses[k])

\* the only warning of the result is the one with this text
OnlyWarning(text) ==
  /\ Len(call.result[1].warnings) = 1
  /\ call.result[1].warnings[1].text = text

\* C16: compareLicenses answers areCompatible = false only when both sides
\* are present and a family name is found in the LICENSE text; when a side is
\* absent, or both are present and no family name is in the text, it answers
\* areCompatible = true with exactly one warning, which says what is missing
C16_IncompatibleOnlyWhenDetected ==
  Compared =>
    /\ ~call.result[1].areCompatible =>
         /\ CffLicensePresent
         /\ LicenseTextPresent
         /\ \E k \in DOMAIN commonLicenses : FamilyInText(k)
    /\ (~CffLicensePresent /\ ~LicenseTextPresent) =>
         /\ call.result[1].areCompatible
         /\ OnlyWarning("No license information found in either CITATION.cff or LICENSE file")
    /\ (~CffLicensePresent /\ LicenseTextPresent) =>
         /\ call.result[1].areCompatible
         /\ OnlyWarning("No license specified in CITATION.cff, but LICENSE file is present")
    /\ (CffLicensePresent /\ ~LicenseTextPresent) =>
         /\ call.result[1].areCompatible
         /\ OnlyWarning("License specified in CITATION.cff, but no LICENSE file found in repository")
    /\ (CffLicensePresent /\ LicenseTextPresent
          /\ \A k \in DOMAIN commonLicenses : ~FamilyInText(k)) =>
         /\ call.result[1].areCompatible
         /\ OnlyWarning("Could not detect license type from LICENSE file content")

\* both sides present and no family name in the LICENSE text: one warning
C16_Witness ==
  /\ Compared
  /\ CffLicensePresent
  /\ LicenseTextPresent
  /\ \A k \in DOMAIN commonLicenses : ~FamilyInText(k)
  /\ call.result[1].areCompatible
  /\ Len(call.result[1].warnings) = 1

\* C17: whenever the CFF license names a family of the list and the LICENSE
\* text contains that family's name, compareLicenses answers areCompatible =
\* true with no warning, whatever else the text contains
C17_NoFalseMismatch ==
  LET \* the CFF license names the k-th family
      FamilyInCffLicense(k) ==
        \E j \in 1..Len(call.cffLicense.texts) :
          Includes(normalizeLicense(call.cffLicense.texts[j]), commonLicenses[k])
  IN (Compared /\ CffLicensePresent /\ LicenseTextPresent
        /\ \E k \in DOMAIN commonLicenses : FamilyInCffLicense(k) /\ FamilyInText(k))
       => /\ call.result[1].areCompatible
          /\ call.result[1].warnings = <<>>
\* ------------------------------------------ createUnifiedMetadata claims
\* createUnifiedMetadata has returned
Built == call.fn = "createUnifiedMetadata" /\ call.result # None

\* the version of the citation handed in (undefined without a citation)
CitationVersion ==
  IF call.citationCff # None THEN call.citationCff[1].version ELSE Undefined

\* the text is there: neither undefined/null nor empty
NonEmpty(text) == text # Undefined /\ text # ""

\* C18: the version of the built record is the repositoryVersion argument
\* when that is non-empty, else the citation's version, else "latest", and
\* never empty (so a call without repositoryVersion, as the pipeline makes
\* it, and without a citation version yields "latest"); name is the tool
\* spec's title, else the repository name; description is the tool spec's
\* description, else the repository's, else the empty text
C18_VersionNameDescriptionFallbacks ==
  Built =>
    /\ call.result[1].version =
         (IF NonEmpty(call.repositoryVersion) THEN call.repositoryVersion
          ELSE IF NonEmpty(CitationVersion) THEN CitationVersion
          ELSE "latest")
    /\ NonEmpty(call.result[1].version)
    /\ call.result[1].name =
         (IF NonEmpty(call.toolSpec.title) THEN call.toolSpec.title
          ELSE call.repoInfo.name)
    /\ call.result[1].description =
         (IF NonEmpty(call.toolSpec.description) THEN call.toolSpec.description
          ELSE IF NonEmpty(call.repoInfo.description) THEN call.repoInfo.description
          ELSE "")

\* an empty repositoryVersion and no citation version: "latest"
C18_Witness ==
  /\ Built
  /\ call.repositoryVersion = ""
  /\ ~NonEmpty(CitationVersion)
  /\ call.result[1].version = "latest"
  /\ call.toolSpec.title = ""
  /\ call.result[1].name = call.repoInfo.name

\* the keyword sources in order: the tag, the citation's keywords, the
\* lower-cased repository language
KeywordSources ==
  \* the tool spec declares at least one parameter
  (IF call.toolSpec.parameters # None /\ Len(call.toolSpec.parameters[1]) > 0
   THEN <<"tool-spec">> ELSE <<>>)
  \o (IF call.citationCff # None THEN call.citationCff[1].keywords ELSE <<>>)
  \o (IF NonEmpty(call.repoInfo.language)
      THEN <<ToLowerCase(call.repoInfo.language)>> ELSE <<>>)

\* position of the first occurrence
FirstIndex(xs, x) == CHOOSE k \in 1..Len(xs) : xs[k] = x /\ \A j \in 1..(k - 1) : xs[j] # x

\* C19: keywords is the duplicate-free concatenation, in order, of
\* "tool-spec" (iff the tool spec has parameters), the citation keywords and
\* the lower-cased repository language: every string of the sources occurs
\* exactly once, at the position of its first occurrence, and nothing else
C19_KeywordsDeduplicatedInOrder ==
  Built =>
    LET keywords == call.result[1].keywords
    IN /\ \A a, b \in 1..Len(keywords) : a # b => keywords[a] # keywords[b]
       /\ \A k \in 1..Len(keywords) : Contains(KeywordSources, keywords[k])
       /\ \A k \in 1..Len(KeywordSources) : Contains(keywords, KeywordSources[k])
       /\ \A a, b \in 1..Len(keywords) :
            a < b => FirstIndex(KeywordSources, keywords[a])
                       < FirstIndex(KeywordSources, keywords[b])
\* ------------------------------------------- mapToolSpecTypeToCwl claims
\* C20: string, integer, float, boolean, enum, asset map to string, int,
\* float, boolean, {type: enum, symbols}, File; and for a parameter of any
\* type optional = true makes the type a union with null and array = true
\* makes it an array-of type (of the union when both are set)
C20_CwlTypeMapping ==
  (/\ call.fn = "mapToolSpecTypeToCwl"
   /\ call.result # None
   /\ call.paramDef.type \in ParameterTypes) =>
    LET paramDef == call.paramDef
        type == call.result[1]
        optional == IsSet(paramDef.optional)
        array == IsSet(paramDef.array)
        element == IF type.kind = "array" THEN type.items ELSE type
        \* the CWL type the claim gives for the tool-spec type
        claimed ==
          CASE paramDef.type = "string" -> CwlName("string")
            [] paramDef.type = "integer" -> CwlName("int")
            [] paramDef.type = "float" -> CwlName("float")
            [] paramDef.type = "boolean" -> CwlName("boolean")
            [] paramDef.type = "asset" -> CwlName("File")
            [] paramDef.type = "enum" ->
                 CwlEnum(IF paramDef.values # None THEN paramDef.values[1] ELSE <<>>)
    IN /\ (~optional /\ ~array) => type = claimed
       /\ array <=> type.kind = "array"
       \* the element type admits null: a union with "null"
       /\ optional <=> (element.kind = "union" /\ Contains(element.names, "null"))
C21_MaintainerChain ==
  (/\ call.fn = "exporter"
   /\ call.format = "doap"
   /\ call.exports # <<>>
   /\ call.validations # <<>>) =>
    LET fullName == call.data.repository.fullName
        \* the characters before the first "/", all of them when there is none
        segment ==
          SubSeq(fullName, 1,
                 CHOOSE k \in 0..Len(fullName) :
                   /\ \A j \in 1..k : fullName[j] # "/"
                   /\ k = Len(fullName) \/ fullName[k + 1] = "/")
        chain ==
          IF call.config # None /\ call.config[1].maintainer # None
          THEN <<call.config[1].maintainer[1].name>>
          ELSE IF segment # <<>> THEN <<segment>>
          ELSE IF call.data.authors # <<>> THEN <<call.data.authors[1].name>>
          ELSE <<>>
        triples == call.exports[1].document[1].triples
        exported == SelectSeq(triples, LAMBDA t : t.predicate = "doap:maintainer")
        validated == call.validations[1]
        required ==
          \E k \in 1..Len(validated) :
            validated[k].text =
              "Maintainer is required for DOAP (could not resolve from repository owner or authors)"
    IN /\ [k \in 1..Len(exported) |-> exported[k].object] = chain
       /\ required <=> chain = <<>>
       /\ required <=> exported = <<>>

\* no config maintainer and no owner segment: the first author is exported
C21_Witness ==
  /\ call.fn = "exporter"
  /\ call.format = "doap"
  /\ call.exports # <<>>
  /\ call.validations # <<>>
  /\ call.config # None
  /\ call.config[1].maintainer = None
  /\ call.data.repository.fullName = <<"/", "r", "e", "p", "o">>
  /\ call.data.authors # <<>>
  /\ \E k \in 1..Len(call.exports[1].document[1].triples) :
       call.exports[1].document[1].triples[k] =
         [predicate |-> "doap:maintainer", object |-> call.data.authors[1].name]
\* ------------------------------------------------ parseCitationCff claims
\* C22: parseCitationCff returns a result on the primary (citation-js) path
\* and on the manual fallback path alike; for a document that is a mapping, an
\* empty or missing author list gives isValid = false and an error about the
\* author field, a missing title gives the title error, an author entry that
\* has neither a name nor given/family names gives one error for that entry
\* and none for the others, and a missing date, license or URL/repository
\* gives its warning and no error: a document with a title and named authors
\* is valid whichever of these are missing
C22_CitationValidation ==
  (call.fn = "parseCitationCff" /\ call.result # None) =>
    LET manual == call.cited.kind = "throws"
        doc == IF manual THEN call.loaded ELSE call.cited
        result == call.result[1]
        authors == IF doc.authors = None THEN <<>> ELSE doc.authors[1]
        Error(text) == \E k \in 1..Len(result.errors) : result.errors[k].text = text
        Warning(text) == \E k \in 1..Len(result.warnings) : result.warnings[k] = text
        ErrorsAbout(k) == {j \in 1..Len(result.errors) : result.errors[j].index = k}
        nameless(k) ==
          authors[k].object /\ ~authors[k].name /\ ~authors[k].given /\ ~authors[k].family
    IN (doc.kind = "object" /\ \A k \in 1..Len(authors) : authors[k].object) =>
         /\ authors = <<>> =>
              /\ ~result.isValid
              /\ Error(IF manual
                       THEN "Missing required field: \"authors\" (must be a non-empty array)"
                       ELSE "Missing required field: \"author\" (must be a non-empty array)")
         /\ doc.title = "missing" =>
              ~result.isValid /\ Error("Missing required field: \"title\"")
         /\ \A k \in 1..Len(authors) :
              Cardinality(ErrorsAbout(k)) = IF nameless(k) THEN 1 ELSE 0
         /\ doc.date = "missing" =>
              Warning(IF manual
                      THEN "Field \"date-released\" is missing (recommended for proper citation)"
                      ELSE "Field \"issued\" (date) is missing (recommended for proper citation)")
         /\ ~doc.license =>
              Warning("Field \"license\" is missing (recommended for proper citation)")
         /\ doc.link = "none" =>
              Warning(IF manual
                      THEN "Neither \"url\" nor \"repository-code\" field is present (recommended for proper citation)"
                      ELSE "Neither \"URL\" nor \"repository\" field is present (recommended for proper citation)")
         /\ (/\ doc.title = "text"
             /\ authors # <<>>
             /\ \A k \in 1..Len(authors) : ~nameless(k)
             /\ doc.date # "raw") =>
              result.isValid /\ result.errors = <<>>

\* the fallback path on a document with a title, an empty author list and
\* none of the recommended fields
C22_Witness ==
  /\ call.fn = "parseCitationCff"
  /\ call.result # None
  /\ call.cited.kind = "throws"
  /\ call.loaded.kind = "object"
  /\ call.loaded.title = "text"
  /\ call.loaded.authors = Some(<<>>)
  /\ call.loaded.date = "missing"
  /\ ~call.loaded.license
  /\ call.loaded.link = "none"
  /\ ~call.result[1].isValid
  /\ Len(call.result[1].errors) = 1
  /\ Len(call.result[1].warnings) >= 3
\* ---------------------------------------------------- Galaxy XML claims
\* C23: in the Galaxy tool document every string taken from the metadata or
\* the configuration (tool id, name, version, profile, description, help,
\* command, names, labels, defaults, help texts and enum values of the
\* inputs, the fields of the outputs, container, citation title, author names
\* and emails) stands with each of & < > " ' replaced, once, by its entity
C23_GalaxyXmlEscaped ==
  (/\ call.fn = "exporter"
   /\ call.format = "galaxy"
   /\ call.exports # <<>>
   /\ ~call.exports[1].threw) =>
    LET data == call.data
        config == IF call.config # None THEN call.config[1] ELSE data.galaxyConfig[1]
        doc == call.exports[1].document[1]
        Entity(c) ==
          CASE c = "&" -> <<"&", "a", "m", "p", ";">>
            [] c = "<" -> <<"&", "l", "t", ";">>
            [] c = ">" -> <<"&", "g", "t", ";">>
            [] c = "\"" -> <<"&", "q", "u", "o", "t", ";">>
            [] c = "'" -> <<"&", "a", "p", "o", "s", ";">>
            [] OTHER -> <<c>>
        RECURSIVE Escaped(_)
        Escaped(text) ==
          IF text = <<>> THEN <<>> ELSE Entity(Head(text)) \o Escaped(Tail(text))
        EscapedIf(optional) ==
          IF optional = None \/ optional[1] = <<>> THEN None ELSE Some(Escaped(optional[1]))
        \* no metacharacter but the & of an entity
        IsEscaped(text) ==
          \A k \in 1..Len(text) :
            /\ text[k] \notin {"<", ">", "\"", "'"}
            /\ text[k] = "&" =>
                 \E e \in {<<"&", "a", "m", "p", ";">>, <<"&", "l", "t", ";">>, <<"&", "g", "t", ";">>, <<"&", "q", "u", "o", "t", ";">>, <<"&", "a", "p", "o", "s", ";">>} :
                   /\ k + Len(e) - 1 <= Len(text)
                   /\ SubSeq(text, k, k + Len(e) - 1) = e
        dataItems == IF data.toolSpec.data = None THEN <<>> ELSE data.toolSpec.data[1]
        parameters ==
          IF data.toolSpec.parameters = None THEN <<>> ELSE data.toolSpec.parameters[1]
        sources == dataItems \o parameters
    IN /\ doc.toolId = Escaped(generateToolId(data.repository.name))
       /\ doc.name = Escaped(data.name)
       /\ doc.version = Escaped(data.version)
       /\ doc.profile = Escaped(config.profile[1])
       /\ doc.description = Escaped(getShortDescription(data.description))
       /\ doc.help = Escaped(data.description)
       /\ doc.command = Escaped(IF config.command = None THEN <<>> ELSE config.command[1])
       /\ Len(doc.inputs) = Len(sources)
       /\ \A k \in 1..Len(sources) :
            /\ doc.inputs[k].name = Escaped(sources[k].name)
            /\ IsEscaped(doc.inputs[k].label)
            /\ doc.inputs[k].help = EscapedIf(sources[k].description)
       /\ \A k \in 1..Len(parameters) :
            LET input == doc.inputs[Len(dataItems) + k]
            IN /\ input.value = EscapedIf(parameters[k].default)
               /\ input.options =
                    IF parameters[k].values = None THEN <<>>
                    ELSE [j \in 1..Len(parameters[k].values[1]) |->
                            Escaped(parameters[k].values[1][j])]
       /\ Len(doc.outputs) = Len(config.outputs)
       /\ \A k \in 1..Len(config.outputs) :
            /\ doc.outputs[k].name = Escaped(config.outputs[k].name)
            /\ doc.outputs[k].label = Escaped(config.outputs[k].label)
            /\ doc.outputs[k].format = Escaped(config.outputs[k].format)
            /\ doc.outputs[k].changeFormat # None =>
                 doc.outputs[k].changeFormat[1] = Escaped(config.outputs[k].format)
       /\ doc.container = EscapedIf(config.container)
       /\ doc.citations # None =>
            /\ doc.citations[1].name = EscapedIf(Some(data.citation.title))
            /\ \A k \in 1..Len(data.authors) :
                 /\ doc.citations[1].authors[k].name = EscapedIf(Some(data.authors[k].name))
                 /\ doc.citations[1].authors[k].email = EscapedIf(data.authors[k].email)

\* a document exported from a record and a configuration full of
\* metacharacters: the description holds both a raw & and the text &lt;
C23_Witness ==
  /\ call.fn = "exporter"
  /\ call.format = "galaxy"
  /\ call.exports # <<>>
  /\ ~call.exports[1].threw
  /\ call.config # None
  /\ call.config[1].command = Some(<<"r", "u", "n", ".", "s", "h", " ", "2", ">", "&", "1">>)
  /\ Len(call.config[1].outputs) = 2
  /\ call.data.description = <<"D", "o", "e", "s", " ", "<", "X", ">", ".", " ", "F", "o", "r", " ", "R", "&", "D", ";", " ", "n", "o", "t", " ", "&", "l", "t", ";", ".">>
  /\ call.data.toolSpec.parameters # None
  /\ call.data.authors # <<>>
  /\ call.exports[1].document[1].command = <<"r", "u", "n", ".", "s", "h", " ", "2", "&", "g", "t", ";", "&", "a", "m", "p", ";", "1">>
  /\ call.exports[1].document[1].description = <<"D", "o", "e", "s", " ", "&", "l", "t", ";", "X", "&", "g", "t", ";", ".">>
\* ------------------------------------------------- check status claims
\* C24: within one run a check's status only moves pending -> running ->
\* completed or failed (a check enters the map pending, never skips running,
\* never leaves completed/failed), skipped is never produced, a finalized
\* CheckResult is not changed afterwards, and every result carries the
\* isRequired of its check's declaration.  A step that empties the map
\* (startAnalysis, resetAnalysis) begins another run.
C24_StatusOnlyMovesForward ==
  [][\A k \in 1..Len(store'.checks) :
       LET new == store'.checks[k]
           declared == checks[CHOOSE i \in 1..NumChecks : checks[i].id = new.id]
       IN /\ new.status \in {"pending", "running", "completed", "failed"}
          /\ new.isRequired = declared.isRequired
          /\ IF MapHas(store.checks, new.id)
             THEN LET old == MapGet(store.checks, new.id)
                  IN \/ new = old
                     \/ old.status = "pending" /\ new = [old EXCEPT !.status = "running"]
                     \/ old.status = "running" /\ new.status \in {"completed", "failed"}
             ELSE new.status = "pending"]_vars

\* a run that finalized a completed and a failed check and stopped
C24_Witness ==
  /\ NoRunInFlight
  /\ store.state = "error"
  /\ Len(store.checks) = NumChecks
  /\ store.checks[1].status = "completed"
  /\ store.checks[2].status = "completed"
  /\ store.checks[3].status = "failed"
  /\ store.checks[4].status = "pending"
\* C25: after the merge of each executed check, completed or failed, progress
\* equals the check's checkpoint (20, 40, 60, 80, 90, 100); within a run
\* progress never decreases; progress is 100 only when the
\* metadata-conversion check completed (its result is completed, merged or
\* about to be merged)
C25_ProgressAtCheckpoints ==
  /\ [][/\ \A r \in Runs :
            runs[r].pc = "merge" /\ runs'[r].pc # "merge" =>
              store'.progress = <<20, 40, 60, 80, 90, 100>>[runs[r].idx]
        /\ store'.checks # <<>> /\ store.checks # <<>> =>
             store'.progress >= store.progress]_vars
  /\ [](store.progress = 100 =>
          \/ /\ MapHas(store.checks, "metadata-conversion")
             /\ MapGet(store.checks, "metadata-conversion").status = "completed"
          \/ \E r \in Runs :
               /\ runs[r].pc \in {"execUpdate", "merge"}
               /\ runs[r].idx = NumChecks
               /\ runs[r].outcome.result.status = "completed")
\* ------------------------------------------------ cancel and reset claims
\* C26: cancelAnalysis sets state to cancelled, canCancel to false, canRetry
\* to true and leaves every other field of the store as it was;
\* resetAnalysis puts every field back to its idle value.  (A step of the
\* page that is no step of an invocation is one of the two calls: it is
\* told apart by the state it leaves.)
C26_CancelAndResetEffects ==
  [][(runs' = runs /\ store' # store) =>
       \/ /\ store'.state = "cancelled"
          /\ ~store'.canCancel
          /\ store'.canRetry
          /\ \A f \in DOMAIN store \ {"state", "canCancel", "canRetry"} :
               store'[f] = store[f]
       \/ store' = [state |-> "idle", repoUrl |-> "", repoInfo |-> None,
                    checks |-> <<>>, currentCheck |-> None, progress |-> 0,
                    toolYaml |-> None, citationCff |-> None, metadata |-> None,
                    warnings |-> <<>>, errors |-> <<>>, canCancel |-> FALSE,
                    canRetry |-> FALSE]]_vars

\* cancelled while tool-yaml-valid awaits its provider: the fields the run
\* wrote so far are still there
C26_Witness ==
  /\ store.state = "cancelled"
  /\ ~store.canCancel
  /\ store.canRetry
  /\ store.currentCheck = Some("tool-yaml-valid")
  /\ store.progress = 40
  /\ store.repoInfo # None
  /\ Len(store.checks) = NumChecks
  /\ \E r \in Runs : runs[r].pc = "await1" /\ runs[r].idx = 3
\* C27: whenever the metadata-conversion executor is called, the snapshot it
\* is given holds a repository descriptor and a tool specification, however
\* startAnalysis, cancelAnalysis and resetAnalysis calls interleave with a
\* run in progress
C27_ConversionSnapshotComplete ==
  \A r \in Runs :
    (runs[r].idx = NumChecks /\ runs[r].pc \in {"execUpdate", "merge"}) =>
      /\ runs[r].snap.repoInfo # None
      /\ runs[r].snap.toolYaml # None
\* C28: canCancel is true only while state is analyzing (so it is false once
\* the analysis completed), canRetry is true only while state is error or
\* cancelled, and the two are never true together
C28_CancelAndRetryFlags ==
  /\ store.canCancel => store.state = "analyzing"
  /\ store.canRetry => store.state \in {"error", "cancelled"}
  /\ ~(store.canCancel /\ store.canRetry)
\* C29: runs are isolated.  Once a later startAnalysis call has reset the
\* store, no step of an earlier, still unfinished invocation changes the
\* store; and an idle store (initially or after resetAnalysis) stays idle
\* until a startAnalysis call
C29_RunsAreIsolated ==
  [][/\ \A r \in Runs :
          (runs'[r] # runs[r] /\ \E q \in Runs : q > r /\ runs[q].pc # "idle") =>
            store' = store
     /\ (store.state = "idle" /\ store' # store) =>
          \E r \in Runs : runs[r].pc = "idle" /\ runs'[r].pc = "seed"]_vars
\* --------------------------------------------------- termination claims
\* C30: when every provider call settles, every startAnalysis invocation
\* finishes its loop; at that point state is completed, error or cancelled,
\* no check is running, and either metadata-conversion is completed or a
\* required check is failed with its error recorded in errors
C30_EveryInvocationFinishes ==
  /\ \A r \in Runs : (runs[r].pc # "idle") ~> (runs[r].pc = "done")
  /\ [][\A r \in Runs :
          (runs[r].pc # "done" /\ runs'[r].pc = "done") =>
            /\ store'.state \in {"completed", "error", "cancelled"}
            /\ \A k \in 1..Len(store'.checks) : store'.checks[k].status # "running"
            /\ \/ /\ MapHas(store'.checks, "metadata-conversion")
                  /\ MapGet(store'.checks, "metadata-conversion").status = "completed"
               \/ \E k \in 1..Len(store'.checks) :
                    /\ store'.checks[k].status = "failed"
                    /\ store'.checks[k].isRequired
                    /\ \E e \in 1..Len(store'.errors) :
                         store'.errors[e] = store'.checks[k].error]_vars

\* an invocation that was cancelled on the way and still ran to its end
C30_Witness ==
  /\ runs[1].pc = "done"
  /\ runs[2].pc = "idle"
  /\ store.state = "completed"
  /\ store.canRetry
  /\ MapGet(store.checks, "metadata-conversion").status = "completed"
====
